---- MODULE Spec2Model ----
(***************************************************************************)
(* SyncMaster: the client-side data layer (services/firebase.ts with its   *)
(* localStorage mock store, services/supabase.ts), the artist Dashboard's  *)
(* application flow and the audio playback controller.                     *)
(*                                                                         *)
(* The module holds several specifications over one set of variables; a    *)
(* specification leaves the variables of the other layers unchanged.       *)
(*   SpecStore          the service modules under a caller that writes     *)
(*   SpecSubs           the service modules under a caller that subscribes *)
(*   SpecDash           the Dashboard's application flow over supabase.ts  *)
(*   SpecPlayer         the playback controller, Dashboard.tsx 954-1071    *)
(*   SpecPlayerCompact  the playback controller, Dashboard.tsx 249-322     *)
(***************************************************************************)
EXTENDS Integers, Sequences, FiniteSets, TLC

Null == "null"
NoId == 0

Users == {"u1", "u2"}
Briefs == {"b1", "b2"}
Titles == {"a", "b"}

\* The signed-in user of the session.
Me == "u1"

EmptyDb == [tracks |-> <<>>, applications |-> <<>>]

\* Bounds of the model.
MaxRows == 2
MaxClock == 2
MaxSubs == 2
MaxInflight == 1
MaxSubRows == 1

VARIABLES
  \* ---- service layer
  backend,      \* "mock" (firebase.ts, db = null), "firestore" (firebase.ts, db set), "supabase"
  remote,       \* the remote database: [tracks, applications], sequences of rows
  mockDb,       \* localStorage[MOCK_DB_KEY]: [tracks, applications]
  now,          \* Date.now()
  nextId,       \* the remote database's id generator
  subs,         \* the subscriptions made so far, in order
  lastCall,     \* the outcome of the last write call the caller made
  \* ---- Dashboard (components/Dashboard.tsx, 626-1908)
  user,                    \* props.user.uid
  briefs,                  \* useState lists the subscriptions deliver
  tracks,
  applications,
  selectedBrief,           \* the brief's id, Null for null
  isApplicationModalOpen,
  applicationStep,         \* 'select' | 'upload' | 'confirm'
  selectedTrackId,         \* NoId for null
  isUploadModalOpen,
  isUploading,
  uploadState,             \* 'idle' | 'uploading' | 'processing' | 'success'
  uploadProgress,
  job,                     \* the async submit handler in flight, with what it captured
  inflight,                \* selects sent by the subscriptions and not yet answered
  userChanges,             \* how often props.user has changed
  uploadFile,              \* a file is selected (uploadFile is not null)
  progressTimer,           \* the simulated-progress setInterval is running
  tags,                    \* const tags of the submit handler that ran last
  lastSubmit,              \* that handler, its tags input and how it ended
  editingTrack,            \* the id of the track in the edit modal, NoId for none
  isSavingProfile,
  \* ---- playback controller
  currentTrack,            \* <<>> for null, else <<track>>
  isPlaying,
  loopMode,                \* 'off' | 'all' | 'one'
  queue,
  currentTrackIndex,
  currentTime,             \* audioRef.current.currentTime, in seconds
  playerEvent,             \* the event the controller handled last
  eventTime,               \* currentTime when that event was handled
  volume,                  \* in hundredths, as the range input steps
  prevVolume,
  volumeOps,               \* the level last set, the toggleMute calls since, and
                           \* the level the volume had before it last became 0
  \* ---- storage
  storage,                 \* the uploadTrackFile call under way and the objects stored
  \* ---- App and SupervisorDashboard
  app,                     \* App's view and user, the auth session, the session checks under way
  seed,                    \* the briefs table and the seedBriefsIfNeeded calls under way
  sup                      \* SupervisorDashboard's selection, lists and loadArtistData calls

gatewayVars == <<backend, remote, mockDb, now, nextId, subs, lastCall>>

dashVars ==
  <<user, briefs, tracks, applications, selectedBrief, isApplicationModalOpen,
    applicationStep, selectedTrackId, isUploadModalOpen, isUploading, uploadState,
    uploadProgress, job, inflight, userChanges, uploadFile, progressTimer,
    tags, lastSubmit, editingTrack, isSavingProfile>>

formVars ==
  <<uploadFile, progressTimer, tags, lastSubmit, editingTrack, isSavingProfile>>

playerVars ==
  <<currentTrack, isPlaying, loopMode, queue, currentTrackIndex, currentTime,
    playerEvent, eventTime, volume, prevVolume, volumeOps>>

storageVars == <<storage>>

shellVars == <<app, seed, sup>>

vars == <<gatewayVars, dashVars, playerVars, storageVars, shellVars>>

----------------------------------------------------------------------------
(* Rows.  src is a ghost tag naming the store a row was read from.         *)

TrackRow(id, uid, title, src) == [id |-> id, userId |-> uid, title |-> title, src |-> src]

AppRow(id, uid, brief, trackId, src) ==
  [id |-> id, userId |-> uid, briefId |-> brief, trackId |-> trackId, src |-> src]

BriefRow(b, src) == [id |-> b, src |-> src]

\* The briefs table of the remote database (read-only for an artist).
RemoteBriefs == <<BriefRow("b1", "remote"), BriefRow("b2", "remote")>>

\* firebase.ts SEED_BRIEFS, the constant served when db is null.
SEED_BRIEFS == <<BriefRow("b1", "local"), BriefRow("b2", "local")>>

OwnedBy(rows, uid) == SelectSeq(rows, LAMBDA r : r.userId = uid)

\* Partial<Track> payloads of updateTrackMetadata over the modelled fields.
UpdatePayloads ==
  { u \in UNION { [D -> Titles \cup Users] : D \in SUBSET {"title", "userId"} } :
      /\ ("title" \in DOMAIN u => u["title"] \in Titles)
      /\ ("userId" \in DOMAIN u => u["userId"] \in Users) }

\* { ...row, ...updates }
Spread(row, updates) ==
  [f \in DOMAIN row |-> IF f \in DOMAIN updates THEN updates[f] ELSE row[f]]

\* Array.prototype.findIndex: the first index whose row has this id, 0 for -1.
FindIndex(rows, id) ==
  IF \E i \in 1..Len(rows) : rows[i].id = id
  THEN CHOOSE i \in 1..Len(rows) :
         /\ rows[i].id = id
         /\ \A j \in 1..(i - 1) : rows[j].id # id
  ELSE 0

----------------------------------------------------------------------------
(* Subscriptions.                                                          *)

NewSub(coll, uid) ==
  [coll |-> coll, userId |-> uid,
   attached |-> FALSE,     \* a listener / channel of this subscription is attached
   unsubCalls |-> 0,       \* calls of the returned unsubscribe function
   init |-> "none",        \* the initial fetch: none | pending | done
   outcome |-> Null,       \* how the initial fetch ended
   initCalls |-> 0,        \* callback invocations made for the initial fetch
   refetch |-> 0,          \* re-fetches in flight
   got |-> FALSE,          \* the callback has been invoked
   last |-> <<>>,          \* the list of the last invocation
   reads |-> <<>>,         \* results of re-fetches on their way back
   refetchFailed |-> FALSE]  \* a re-fetch has come back without data

\* The collections of the data subscriptions; "auth" is the fourth adapter.
Colls == {"briefs", "tracks", "applications"}

\* callback(list): the subscriber's state after one more invocation.
Invoke(s, list) == [s EXCEPT !.got = TRUE, !.last = list]

----------------------------------------------------------------------------
(* Reads.                                                                  *)

\* A faulty read: one failed tracks fetch degrades the reads of every table.
RemoteRowsDegraded(coll, uid) ==
  IF \E i \in 1..Len(subs) :
       subs[i].coll = "tracks" /\ subs[i].outcome \in {"error", "rejected"}
  THEN <<>>
  ELSE IF coll = "briefs" THEN RemoteBriefs ELSE OwnedBy(remote[coll], uid)

\* select('*').eq('user_id', userId) on the remote database; briefs are unfiltered.
RemoteRows(coll, uid) ==
  IF coll = "briefs" THEN RemoteBriefs ELSE OwnedBy(remote[coll], uid)

\* A faulty read: the rows of the local store followed by those of the
\* remote database.
Fb_mockRowsMerged(db, coll, uid) ==
  IF coll = "briefs" THEN SEED_BRIEFS \o RemoteBriefs
  ELSE OwnedBy(db[coll], uid) \o OwnedBy(remote[coll], uid)

\* firebase.ts, db = null: what a handler reads from the mock store db.
Fb_mockRows(db, coll, uid) ==
  IF coll = "briefs" THEN SEED_BRIEFS ELSE OwnedBy(db[coll], uid)

\* A faulty updateMockDb: setItem without the dispatchEvent.
updateMockDbSilent(db, ss) == ss

\* updateMockDb: setItem, then dispatchEvent(MOCK_EVENT), which runs every
\* attached handler synchronously; a handler re-reads the store and filters.
updateMockDb(db, ss) ==
  [i \in 1..Len(ss) |->
     IF ss[i].attached /\ ss[i].coll \in Colls
     THEN Invoke(ss[i], Fb_mockRows(db, ss[i].coll, ss[i].userId))
     ELSE ss[i]]

NoCall == [ok |-> TRUE, result |-> Null]

Call(ok, result) == [ok |-> ok, result |-> result]

----------------------------------------------------------------------------
(* services/firebase.ts                                                    *)

IsFirebase == backend \in {"mock", "firestore"}

\* subscribeToBriefs / subscribeToUserTracks / subscribeToUserApplications.
Fb_subscribed(coll, uid) ==
  IF backend = "mock"
  THEN IF coll = "briefs"
       THEN [Invoke(NewSub(coll, uid), SEED_BRIEFS)
               EXCEPT !.init = "done", !.outcome = "rows", !.initCalls = 1]
       ELSE [Invoke(NewSub(coll, uid), Fb_mockRows(mockDb, coll, uid))
               EXCEPT !.attached = TRUE, !.init = "done", !.outcome = "rows",
                      !.initCalls = 1]
  ELSE [NewSub(coll, uid) EXCEPT !.attached = TRUE, !.init = "pending"]

Fb_subscribe(coll, uid) ==
  /\ IsFirebase
  /\ Len(subs) < MaxSubs
  /\ subs' = Append(subs, Fb_subscribed(coll, uid))
  /\ UNCHANGED <<backend, remote, mockDb, now, nextId, lastCall>>
  /\ UNCHANGED <<dashVars, playerVars, storageVars, shellVars>>

\* The onSnapshot listener: Firestore calls it with the first result set and
\* again whenever the result set changes, while the listener is attached.
Fb_onSnapshot(i) ==
  /\ backend = "firestore"
  /\ subs[i].coll \in Colls
  /\ subs[i].attached
  /\ \/ subs[i].init = "pending"
     \/ subs[i].last # RemoteRows(subs[i].coll, subs[i].userId)
  /\ subs' = [subs EXCEPT ![i] =
       [Invoke(@, RemoteRows(@.coll, @.userId))
          EXCEPT !.init = "done", !.outcome = "rows",
                 !.initCalls = IF subs[i].init = "pending" THEN 1 ELSE @]]
  /\ UNCHANGED <<backend, remote, mockDb, now, nextId, lastCall>>
  /\ UNCHANGED <<dashVars, playerVars, storageVars, shellVars>>

\* What an auth listener is called with: the signed-in user.
AuthUser == <<[uid |-> user]>>

\* subscribeToAuth of firebase.ts: onAuthStateChanged(auth, callback), or
\* without an auth handle checkMockUser() and a 'mock_auth_changed' listener.
Fb_authSubscribed ==
  IF backend = "mock"
  THEN [Invoke(NewSub("auth", Null), AuthUser)
          EXCEPT !.attached = TRUE, !.init = "done", !.outcome = "rows",
                 !.initCalls = 1]
  ELSE [NewSub("auth", Null) EXCEPT !.attached = TRUE, !.init = "pending"]

Fb_subscribeToAuth ==
  /\ IsFirebase
  /\ Len(subs) < MaxSubs
  /\ subs' = Append(subs, Fb_authSubscribed)
  /\ UNCHANGED <<backend, remote, mockDb, now, nextId, lastCall>>
  /\ UNCHANGED <<dashVars, playerVars, storageVars, shellVars>>

\* The observer of onAuthStateChanged is called with the initial state.
Fb_onAuthStateChanged(i) ==
  /\ backend = "firestore"
  /\ subs[i].coll = "auth"
  /\ subs[i].attached
  /\ subs[i].init = "pending"
  /\ subs' = [subs EXCEPT ![i] =
       [Invoke(@, AuthUser) EXCEPT !.init = "done", !.outcome = "rows", !.initCalls = 1]]
  /\ UNCHANGED <<backend, remote, mockDb, now, nextId, lastCall>>
  /\ UNCHANGED <<dashVars, playerVars, storageVars, shellVars>>

\* The function a firebase.ts subscribe returns: removeEventListener with the
\* subscription's own handler, the onSnapshot unsubscribe, or () => {}.
Fb_detached(ss, i) == [ss EXCEPT ![i].attached = FALSE]

MaxUnsubCalls == 2

Fb_unsubscribe(i) ==
  /\ IsFirebase
  /\ subs[i].unsubCalls < MaxUnsubCalls
  /\ subs' = [Fb_detached(subs, i) EXCEPT ![i].unsubCalls = @ + 1]
  /\ UNCHANGED <<backend, remote, mockDb, now, nextId, lastCall>>
  /\ UNCHANGED <<dashVars, playerVars, storageVars, shellVars>>

\* 'mock-track-' + Date.now(), 'mock-app-' + Date.now()
Fb_mockId == now

\* { ...dbData.tracks[index], ...updates }
Fb_merged(row, updates) == Spread(row, updates)

Fb_saveTrackMetadata(title, uid, ok) ==
  /\ IsFirebase
  /\ IF backend = "mock"
     THEN /\ ok
          /\ Len(mockDb.tracks) < MaxRows
          /\ LET db == [mockDb EXCEPT !.tracks =
                          Append(@, TrackRow(Fb_mockId, uid, title, "local"))]
             IN /\ mockDb' = db
                /\ subs' = updateMockDb(db, subs)
          /\ lastCall' = Call(TRUE, "returned")
          /\ UNCHANGED <<remote, nextId>>
     ELSE /\ Len(remote.tracks) < MaxRows
          /\ IF ok
             THEN /\ remote' = [remote EXCEPT !.tracks =
                                  Append(@, TrackRow(nextId, uid, title, "remote"))]
                  /\ nextId' = nextId + 1
                  /\ lastCall' = Call(TRUE, "returned")
             ELSE /\ lastCall' = Call(FALSE, "threw")
                  /\ UNCHANGED <<remote, nextId>>
          /\ UNCHANGED <<mockDb, subs>>
  /\ UNCHANGED <<backend, now>>
  /\ UNCHANGED <<dashVars, playerVars, storageVars, shellVars>>

Fb_updateTrackMetadata(id, updates, ok) ==
  /\ IsFirebase
  /\ IF backend = "mock"
     THEN /\ ok
          /\ LET index == FindIndex(mockDb.tracks, id)
             IN IF index # 0
                THEN LET db == [mockDb EXCEPT !.tracks[index] = Fb_merged(@, updates)]
                     IN /\ mockDb' = db
                        /\ subs' = updateMockDb(db, subs)
                ELSE UNCHANGED <<mockDb, subs>>
          /\ lastCall' = Call(TRUE, "returned")
          /\ UNCHANGED remote
     ELSE /\ \E k \in 1..Len(remote.tracks) : remote.tracks[k].id = id
          /\ IF ok
             THEN /\ remote' = [remote EXCEPT !.tracks =
                       [k \in 1..Len(@) |->
                          IF @[k].id = id THEN Fb_merged(@[k], updates) ELSE @[k]]]
                  /\ lastCall' = Call(TRUE, "returned")
             ELSE /\ lastCall' = Call(FALSE, "threw")
                  /\ UNCHANGED remote
          /\ UNCHANGED <<mockDb, subs>>
  /\ UNCHANGED <<backend, now, nextId>>
  /\ UNCHANGED <<dashVars, playerVars, storageVars, shellVars>>

Fb_submitApplication(brief, trackId, uid, ok) ==
  /\ IsFirebase
  /\ IF backend = "mock"
     THEN /\ ok
          /\ Len(mockDb.applications) < MaxRows
          /\ LET db == [mockDb EXCEPT !.applications =
                          Append(@, AppRow(Fb_mockId, uid, brief, trackId, "local"))]
             IN /\ mockDb' = db
                /\ subs' = updateMockDb(db, subs)
          /\ lastCall' = Call(TRUE, "returned")
          /\ UNCHANGED <<remote, nextId>>
     ELSE /\ Len(remote.applications) < MaxRows
          /\ IF ok
             THEN /\ remote' = [remote EXCEPT !.applications =
                                  Append(@, AppRow(nextId, uid, brief, trackId, "remote"))]
                  /\ nextId' = nextId + 1
                  /\ lastCall' = Call(TRUE, "returned")
             ELSE /\ lastCall' = Call(FALSE, "threw")
                  /\ UNCHANGED <<remote, nextId>>
          /\ UNCHANGED <<mockDb, subs>>
  /\ UNCHANGED <<backend, now>>
  /\ UNCHANGED <<dashVars, playerVars, storageVars, shellVars>>

\* Date.now() advances.
Tick ==
  /\ now < MaxClock
  /\ now' = now + 1
  /\ UNCHANGED <<backend, remote, mockDb, nextId, subs, lastCall>>
  /\ UNCHANGED <<dashVars, playerVars, storageVars, shellVars>>

----------------------------------------------------------------------------
(* services/supabase.ts                                                    *)

FetchOutcomes == {"rows", "error", "rejected", "nodata"}

\* subscribeTo*: the initial select is sent and the channel is subscribed.
Sb_subscribed(coll, uid) ==
  [NewSub(coll, uid) EXCEPT !.attached = TRUE, !.init = "pending"]

Sb_subscribe(coll, uid) ==
  /\ backend = "supabase"
  /\ Len(subs) < MaxSubs
  /\ subs' = Append(subs, Sb_subscribed(coll, uid))
  /\ UNCHANGED <<backend, remote, mockDb, now, nextId, lastCall>>
  /\ UNCHANGED <<dashVars, playerVars, storageVars, shellVars>>

\* subscribeToAuth of supabase.ts: getSession() is sent and
\* onAuthStateChange is subscribed.
Sb_subscribeToAuth ==
  /\ backend = "supabase"
  /\ Len(subs) < MaxSubs
  /\ subs' = Append(subs, Sb_subscribed("auth", Null))
  /\ UNCHANGED <<backend, remote, mockDb, now, nextId, lastCall>>
  /\ UNCHANGED <<dashVars, playerVars, storageVars, shellVars>>

\* getSession().then(handleSession).catch(() => callback(null)): with a
\* session the callback gets the mapped user, with or without its profile;
\* without one, or when the check rejects, it gets null.
Sb_sessionChecked(s, outcome) ==
  [Invoke(s, IF outcome = "rows" THEN AuthUser ELSE <<>>)
     EXCEPT !.init = "done", !.outcome = outcome, !.initCalls = @ + 1]

Sb_getSession(i, outcome) ==
  /\ backend = "supabase"
  /\ subs[i].coll = "auth"
  /\ subs[i].init = "pending"
  /\ outcome \in {"rows", "nodata", "rejected"}
  /\ subs' = [subs EXCEPT ![i] = Sb_sessionChecked(@, outcome)]
  /\ UNCHANGED <<backend, remote, mockDb, now, nextId, lastCall>>
  /\ UNCHANGED <<dashVars, playerVars, storageVars, shellVars>>

\* A faulty chain: a failed fetch is served from the local store.
Sb_initialFetchedLocal(s, rows, outcome, throws) ==
  LET local == IF s.coll = "briefs" THEN SEED_BRIEFS
               ELSE OwnedBy(mockDb[s.coll], s.userId)
      list == IF outcome = "rows" THEN rows ELSE local
  IN [Invoke(s, list) EXCEPT !.init = "done", !.outcome = outcome, !.initCalls = 1]

\* What the initial fetch's then/catch chain does with the subscriber s:
\*   .then(({data, error}) => { if (!error && data) callback(mapped);
\*                              if (error) callback([]); })
\*   .catch(err => callback([]))
\* outcome: rows (data, no error), error (an error result), rejected (the
\* request's promise rejects), nodata (neither data nor error).  throws: the
\* callback throws when first invoked, which rejects the then-promise and so
\* runs the catch handler.
Sb_initialFetched(s, rows, outcome, throws) ==
  LET first == CASE outcome = "rows" -> [Invoke(s, rows) EXCEPT !.initCalls = @ + 1]
                 [] outcome = "error" -> [Invoke(s, <<>>) EXCEPT !.initCalls = @ + 1]
                 [] OTHER -> s
      caught == IF outcome = "rejected" \/ (throws /\ outcome \in {"rows", "error"})
                THEN [Invoke(first, <<>>) EXCEPT !.initCalls = @ + 1]
                ELSE first
  IN [caught EXCEPT !.init = "done", !.outcome = outcome]

\* The response of the initial select arrives.  Nothing cancels it: it runs
\* whether or not the subscription has been unsubscribed meanwhile.
Sb_initialFetch(i, outcome, throws) ==
  /\ backend = "supabase"
  /\ subs[i].coll \in Colls
  /\ subs[i].init = "pending"
  /\ throws => outcome \in {"rows", "error"}
  /\ subs' = [subs EXCEPT ![i] =
       Sb_initialFetched(@, RemoteRows(@.coll, @.userId), outcome, throws)]
  /\ UNCHANGED <<backend, remote, mockDb, now, nextId, lastCall>>
  /\ UNCHANGED <<dashVars, playerVars, storageVars, shellVars>>

\* A postgres_changes notification reaches an attached channel: its handler
\* sends a re-fetch.
Sb_postgresChange(i) ==
  /\ backend = "supabase"
  /\ subs[i].coll \in Colls
  /\ subs[i].attached
  /\ subs[i].refetch < MaxInflight
  /\ subs' = [subs EXCEPT ![i].refetch = @ + 1]
  /\ UNCHANGED <<backend, remote, mockDb, now, nextId, lastCall>>
  /\ UNCHANGED <<dashVars, playerVars, storageVars, shellVars>>

\* .then(({data}) => { if (data) callback(mapped) }).catch(console.error)
Sb_refetched(s, rows, outcome) ==
  IF outcome = "rows" THEN Invoke(s, rows) ELSE s

Sb_refetch(i, outcome) ==
  /\ backend = "supabase"
  /\ subs[i].refetch > 0
  /\ subs' = [subs EXCEPT ![i] =
       [Sb_refetched(@, RemoteRows(@.coll, @.userId), outcome) EXCEPT !.refetch = @ - 1]]
  /\ UNCHANGED <<backend, remote, mockDb, now, nextId, lastCall>>
  /\ UNCHANGED <<dashVars, playerVars, storageVars, shellVars>>

\* A faulty unsubscribe: every channel of the subscription's table is removed.
Sb_detachedByTable(ss, i) ==
  [k \in 1..Len(ss) |->
     IF ss[k].coll = ss[i].coll THEN [ss[k] EXCEPT !.attached = FALSE] ELSE ss[k]]

\* () => { supabase.removeChannel(channel) }: the subscription's own channel.
Sb_detached(ss, i) == [ss EXCEPT ![i].attached = FALSE]

Sb_unsubscribe(i) ==
  /\ backend = "supabase"
  /\ subs[i].unsubCalls < MaxUnsubCalls
  /\ subs' = [Sb_detached(subs, i) EXCEPT ![i].unsubCalls = @ + 1]
  /\ UNCHANGED <<backend, remote, mockDb, now, nextId, lastCall>>
  /\ UNCHANGED <<dashVars, playerVars, storageVars, shellVars>>

\* insert(dbTrack).select().single() on a reachable database.
Sb_insertTrack(db, id, title, uid) ==
  [db EXCEPT !.tracks = Append(@, TrackRow(id, uid, title, "remote"))]

\* insert(dbApp).select().single() on a reachable database.
Sb_insertApp(db, id, brief, trackId, uid) ==
  [db EXCEPT !.applications = Append(@, AppRow(id, uid, brief, trackId, "remote"))]

\* The value a Track leaves undefined and a row holds as null.
NoBpm == -1

\* JavaScript truthiness of the value of an update's field: an array is truthy
\* even when empty, a number unless it is 0 (or undefined), a string unless
\* it is empty.
Truthy(f, v) ==
  CASE f = "tags" -> TRUE
    [] f = "bpm" -> v # NoBpm /\ v # 0
    [] OTHER -> v # ""

\* updateTrackMetadata's dbUpdates: only the listed fields, each only if truthy.
Sb_dbUpdates(updates) ==
  [f \in {g \in (DOMAIN updates) \cap {"title", "bpm", "tags", "description"} :
            Truthy(g, updates[g])} |-> updates[f]]

\* update(dbUpdates).eq('id', trackId) on a reachable database.
Sb_updateTrack(db, id, updates) ==
  [db EXCEPT !.tracks =
     [k \in 1..Len(@) |-> IF @[k].id = id THEN Spread(@[k], Sb_dbUpdates(updates)) ELSE @[k]]]

\* A row is inserted into tracks for uid and the database notifies the
\* channels whose filter is user_id=eq.uid: each handler sends its select.
Sb_trackInsertNotified(uid) ==
  /\ backend = "supabase"
  /\ Len(remote.tracks) < MaxRows
  /\ remote' = Sb_insertTrack(remote, nextId, "a", uid)
  /\ nextId' = nextId + 1
  /\ subs' = [i \in 1..Len(subs) |->
                IF subs[i].attached /\ subs[i].coll = "tracks" /\ subs[i].userId = uid
                THEN [subs[i] EXCEPT !.refetch = @ + 1]
                ELSE subs[i]]
  /\ UNCHANGED <<backend, mockDb, now, lastCall>>
  /\ UNCHANGED <<dashVars, playerVars, storageVars, shellVars>>

\* The database executes the select of a re-fetch: the result is the rows of
\* that moment.
Sb_refetchRead(i) ==
  /\ backend = "supabase"
  /\ subs[i].refetch > 0
  /\ subs' = [subs EXCEPT ![i].refetch = @ - 1,
                          ![i].reads = Append(@, RemoteRows(subs[i].coll, subs[i].userId))]
  /\ UNCHANGED <<backend, remote, mockDb, now, nextId, lastCall>>
  /\ UNCHANGED <<dashVars, playerVars, storageVars, shellVars>>

\* One of the results on their way back arrives, whichever, and the then
\* handler of its re-fetch runs.
Sb_refetchAnswered(i, k, outcome) ==
  /\ backend = "supabase"
  /\ k \in 1..Len(subs[i].reads)
  /\ subs' = [subs EXCEPT ![i] =
       [Sb_refetched(@, @.reads[k], outcome)
          EXCEPT !.reads = SubSeq(@, 1, k - 1) \o SubSeq(@, k + 1, Len(@)),
                 !.refetchFailed = @ \/ outcome # "rows"]]
  /\ UNCHANGED <<backend, remote, mockDb, now, nextId, lastCall>>
  /\ UNCHANGED <<dashVars, playerVars, storageVars, shellVars>>

\* ok: the request reaches the database; otherwise { error } comes back and
\* the function throws it.
Sb_saveTrackMetadata(title, uid, ok) ==
  /\ backend = "supabase"
  /\ Len(remote.tracks) < MaxRows
  /\ IF ok
     THEN /\ remote' = Sb_insertTrack(remote, nextId, title, uid)
          /\ nextId' = nextId + 1
          /\ lastCall' = Call(TRUE, "returned")
     ELSE /\ lastCall' = Call(FALSE, "threw")
          /\ UNCHANGED <<remote, nextId>>
  /\ UNCHANGED <<backend, mockDb, now, subs>>
  /\ UNCHANGED <<dashVars, playerVars, storageVars, shellVars>>

Sb_updateTrackMetadata(id, updates, ok) ==
  /\ backend = "supabase"
  /\ IF ok
     THEN /\ remote' = Sb_updateTrack(remote, id, updates)
          /\ lastCall' = Call(TRUE, "returned")
     ELSE /\ lastCall' = Call(FALSE, "threw")
          /\ UNCHANGED remote
  /\ UNCHANGED <<backend, mockDb, now, nextId, subs>>
  /\ UNCHANGED <<dashVars, playerVars, storageVars, shellVars>>

Sb_submitApplication(brief, trackId, uid, ok) ==
  /\ backend = "supabase"
  /\ Len(remote.applications) < MaxRows
  /\ IF ok
     THEN /\ remote' = Sb_insertApp(remote, nextId, brief, trackId, uid)
          /\ nextId' = nextId + 1
          /\ lastCall' = Call(TRUE, "returned")
     ELSE /\ lastCall' = Call(FALSE, "threw")
          /\ UNCHANGED <<remote, nextId>>
  /\ UNCHANGED <<backend, mockDb, now, subs>>
  /\ UNCHANGED <<dashVars, playerVars, storageVars, shellVars>>

----------------------------------------------------------------------------
(* The Dashboard and the playback controller before anything is done.      *)

\* No uploadTrackFile call has been made and the buckets hold nothing.
IdleStorage ==
  storage = [status |-> "idle", userId |-> Null, bucketName |-> Null,
             attempts |-> <<>>, objects |-> {}, calls |-> 0]

\* App's useState initial values (part_001 92-98) before any session check:
\* checks are the getSession calls under way, each with the view its callback
\* closed over; purchase is the state of handlePurchase's timer; event,
\* lastNav and before are ghosts: the last step, the last click that set view,
\* and the view and user before the last step.
IdleApp ==
  [view |-> "landing", user |-> Null, session |-> Null, checks |-> <<>>,
   purchase |-> "none", event |-> "none", lastNav |-> <<>>,
   before |-> [view |-> "landing", user |-> Null]]

\* A seeded briefs table and no seedBriefsIfNeeded call under way.
IdleSeed == [table |-> <<"b1", "b2">>, calls |-> <<>>]

\* SupervisorDashboard's useState initial values, Auth.tsx 195-208.
IdleSup ==
  [selectedArtist |-> Null, artistTracks |-> <<>>, artistApps |-> <<>>,
   artistStats |-> [totalTracks |-> 0, totalApps |-> 0], loads |-> <<>>]

IdleShell ==
  /\ app = IdleApp
  /\ seed = IdleSeed
  /\ sup = IdleSup

\* No submit handler has run.
NoSubmit ==
  [handler |-> "none", outcome |-> "none", title |-> "", tagsInput |-> <<>>,
   bpm |-> "", description |-> ""]

\* The useState initial values of the forms, Dashboard.tsx 640-677.
IdleForm ==
  /\ uploadFile = FALSE
  /\ progressTimer = FALSE
  /\ tags = <<>>
  /\ lastSubmit = NoSubmit
  /\ editingTrack = NoId
  /\ isSavingProfile = FALSE

NoJob == [kind |-> "none", phase |-> "none", uid |-> Null, brief |-> Null, trackId |-> NoId]

\* The useState initial values of Dashboard.tsx 627-681.
IdleDash ==
  /\ user = Me
  /\ briefs = <<>>
  /\ tracks = <<>>
  /\ applications = <<>>
  /\ selectedBrief = Null
  /\ isApplicationModalOpen = FALSE
  /\ applicationStep = "select"
  /\ selectedTrackId = NoId
  /\ isUploadModalOpen = FALSE
  /\ isUploading = FALSE
  /\ uploadState = "idle"
  /\ uploadProgress = 0
  /\ job = NoJob
  /\ inflight = {}
  /\ userChanges = 0
  /\ IdleForm

\* useState(0.7) of volume and prevVolume.
InitialVolume == 70

\* No level has been set with the slider yet.
NoVolumeOps == [set |-> -1, toggles |-> 0, beforeZero |-> -1]

IdlePlayer ==
  /\ currentTrack = <<>>
  /\ isPlaying = FALSE
  /\ loopMode = "off"
  /\ queue = <<>>
  /\ currentTrackIndex = -1
  /\ currentTime = 0
  /\ playerEvent = "none"
  /\ eventTime = 0
  /\ volume = InitialVolume
  /\ prevVolume = InitialVolume
  /\ volumeOps = NoVolumeOps

----------------------------------------------------------------------------
(* SpecStore, SpecSubs: the service modules under an arbitrary caller.     *)

\* subscribeToBriefs takes no user.
SubscribersOf(coll) == IF coll = "briefs" THEN {Null} ELSE {Me}

\* The store the configuration uses.
Active == IF backend = "mock" THEN mockDb ELSE remote

\* Track ids a caller can name: those stored, and NoId, which is not.
TrackIds == {Active.tracks[k].id : k \in 1..Len(Active.tracks)}

\* The store this configuration does not use still holds what was put there
\* before: rows other clients wrote to the remote database while this client
\* has no database handle, or a record an earlier unconfigured run left in
\* localStorage.
OtherStore(src) == [tracks |-> <<TrackRow(1, Me, "a", src)>>, applications |-> <<>>]

InitGateway ==
  /\ backend \in {"mock", "firestore", "supabase"}
  /\ remote = IF backend = "mock" THEN OtherStore("remote") ELSE EmptyDb
  /\ mockDb = IF backend = "mock" THEN EmptyDb ELSE OtherStore("local")
  /\ now = 1
  /\ nextId = 1
  /\ subs = <<>>
  /\ lastCall = NoCall
  /\ IdleDash
  /\ IdlePlayer
  /\ IdleStorage
  /\ IdleShell

\* SpecStore: a caller that only writes.
NextStore ==
  \/ Tick
  \/ \E t \in Titles, u \in Users, ok \in BOOLEAN : Fb_saveTrackMetadata(t, u, ok)
  \/ \E id \in TrackIds \cup {NoId}, p \in UpdatePayloads, ok \in BOOLEAN :
       Fb_updateTrackMetadata(id, p, ok)
  \/ \E b \in Briefs, id \in TrackIds, u \in Users, ok \in BOOLEAN : Fb_submitApplication(b, id, u, ok)
  \/ \E t \in Titles, u \in Users, ok \in BOOLEAN : Sb_saveTrackMetadata(t, u, ok)
  \/ \E id \in TrackIds \cup {NoId}, p \in UpdatePayloads, ok \in BOOLEAN :
       Sb_updateTrackMetadata(id, p, ok)
  \/ \E b \in Briefs, id \in TrackIds, u \in Users, ok \in BOOLEAN : Sb_submitApplication(b, id, u, ok)

SpecStore == InitGateway /\ [][NextStore]_vars

\* Rows stored so far in the store the configuration uses.
StoredTracks == Len(Active.tracks)

StoredApps == Len(Active.applications)

\* SpecSubs: a caller that subscribes and unsubscribes while rows are added.
NextSubs ==
  \/ \E c \in Colls : \E u \in SubscribersOf(c) : Fb_subscribe(c, u)
  \/ Fb_subscribeToAuth
  \/ \E i \in 1..Len(subs) : Fb_onSnapshot(i)
  \/ \E i \in 1..Len(subs) : Fb_onAuthStateChanged(i)
  \/ \E i \in 1..Len(subs) : Fb_unsubscribe(i)
  \/ \E u \in Users, ok \in BOOLEAN :
       StoredTracks < MaxSubRows /\ Fb_saveTrackMetadata("a", u, ok)
  \/ \E id \in TrackIds, u \in Users, ok \in BOOLEAN :
       StoredApps < MaxSubRows /\ Fb_submitApplication("b1", id, u, ok)
  \/ \E c \in Colls : \E u \in SubscribersOf(c) : Sb_subscribe(c, u)
  \/ Sb_subscribeToAuth
  \/ \E i \in 1..Len(subs), o \in FetchOutcomes, th \in BOOLEAN : Sb_initialFetch(i, o, th)
  \/ \E i \in 1..Len(subs), o \in FetchOutcomes : Sb_getSession(i, o)
  \/ \E i \in 1..Len(subs) : Sb_postgresChange(i)
  \/ \E i \in 1..Len(subs), o \in FetchOutcomes : Sb_refetch(i, o)
  \/ \E i \in 1..Len(subs) : Sb_unsubscribe(i)
  \/ \E u \in Users, ok \in BOOLEAN :
       StoredTracks < MaxSubRows /\ Sb_saveTrackMetadata("a", u, ok)
  \/ \E id \in TrackIds, u \in Users, ok \in BOOLEAN :
       StoredApps < MaxSubRows /\ Sb_submitApplication("b1", id, u, ok)

SpecSubs == InitGateway /\ [][NextSubs]_vars

----------------------------------------------------------------------------
(* Properties of the service modules.                                      *)

\* The rows a subscriber's query selects from the remote database now.
SelectedRemote(s) ==
  IF s.coll = "briefs" THEN <<BriefRow("b1", "remote"), BriefRow("b2", "remote")>>
  ELSE SelectSeq(remote[s.coll], LAMBDA r : r.userId = s.userId)

\* The rows a subscriber's handler selects from the local store now.
SelectedLocal(s) ==
  IF s.coll = "briefs" THEN <<BriefRow("b1", "local"), BriefRow("b2", "local")>>
  ELSE SelectSeq(mockDb[s.coll], LAMBDA r : r.userId = s.userId)

\* In this step the initial fetch of subscription i resolves.
InitialFetchEnds(i) ==
  /\ i \in 1..Len(subs)
  /\ Len(subs') = Len(subs)
  /\ subs[i].init = "pending"
  /\ subs'[i].init = "done"

\* In this step the unsubscribe function of subscription i is called.
UnsubscribeCalled(i) ==
  /\ i \in 1..Len(subs)
  /\ Len(subs') = Len(subs)
  /\ subs'[i].unsubCalls = subs[i].unsubCalls + 1

\* C3: every list delivered to a subscriber's callback comes wholly from one
\* backing store: all of its rows are rows of the remote database or all of
\* them are rows of the local store, never a merge of the two.
C3_OneStorePerList ==
  \A i \in 1..Len(subs) :
    subs[i].coll \in Colls =>
    \A j, k \in 1..Len(subs[i].last) : subs[i].last[j].src = subs[i].last[k].src

\* A subscriber of the local store holds the track list an event delivered,
\* and a briefs subscriber holds the seed list.
C3_Witness ==
  /\ backend = "mock"
  /\ \E i \in 1..Len(subs) :
       subs[i].coll = "tracks" /\ mockDb.tracks # <<>> /\ subs[i].last = mockDb.tracks
  /\ \E i \in 1..Len(subs) : subs[i].coll = "briefs" /\ Len(subs[i].last) = 2

C6_OneInitialInvocation ==
  \A i \in 1..Len(subs) : subs[i].init = "done" => subs[i].initCalls = 1

\* An initial fetch has ended with one invocation of the callback.
C6_Witness ==
  \E i \in 1..Len(subs) :
    subs[i].init = "done" /\ subs[i].outcome = "error" /\ subs[i].initCalls = 1

\* C7: fallback isolation.  The step in which a tracks fetch fails changes the
\* tracks subscriber alone, and a briefs or applications fetch that returns
\* rows delivers the rows its query selects whether or not a tracks fetch has
\* failed.
C7_FallbackIsolation ==
  [][ \A i \in 1..Len(subs) :
        InitialFetchEnds(i) =>
          /\ (subs[i].coll = "tracks" /\ subs'[i].outcome \in {"error", "rejected"})
               => /\ \A j \in 1..Len(subs) : j # i => subs'[j] = subs[j]
                  /\ UNCHANGED <<remote, mockDb>>
          /\ (subs[i].coll \in Colls \ {"tracks"} /\ subs'[i].outcome = "rows"
                /\ subs'[i].initCalls = 1)
               => subs'[i].last = SelectedRemote(subs[i]) ]_vars

\* A tracks fetch has failed and a briefs fetch made afterwards has delivered
\* the briefs of the remote database.
C7_Witness ==
  \E i, j \in 1..Len(subs) :
    /\ i < j
    /\ subs[i].coll = "tracks"
    /\ subs[i].outcome \in {"error", "rejected"}
    /\ subs[j].coll = "briefs"
    /\ subs[j].outcome = "rows"
    /\ Len(subs[j].last) = 2

\* C8: two saveTrackMetadata calls against the local store leave two track
\* records that are distinguishable by id.
C8_DistinctLocalIds ==
  \A j, k \in 1..Len(mockDb.tracks) :
    j # k => mockDb.tracks[j].id # mockDb.tracks[k].id

\* Two saves a clock tick apart have left two records with different ids.
C8_Witness ==
  /\ Len(mockDb.tracks) = 2
  /\ mockDb.tracks[1].id # mockDb.tracks[2].id
  /\ mockDb.tracks[1].userId = mockDb.tracks[2].userId
  /\ mockDb.tracks[1].title # mockDb.tracks[2].title

\* C9: a stored track's userId never changes, whatever saveTrackMetadata and
\* updateTrackMetadata calls are made and whatever their payloads.
C9_OwnerNeverChanges ==
  [][ /\ \A k \in 1..Len(mockDb.tracks) :
           mockDb'.tracks[k].userId = mockDb.tracks[k].userId
      /\ \A k \in 1..Len(remote.tracks) :
           remote'.tracks[k].userId = remote.tracks[k].userId ]_vars

----------------------------------------------------------------------------
(* components/Dashboard.tsx, 626-1908, over services/supabase.ts.          *)

MaxUserChanges == 1
MaxDashTracks == 1

\* The briefs the user pitches.
Pitched == {"b1"}

svcRest == <<backend, mockDb, now, subs, lastCall>>
listVars == <<briefs, tracks, applications>>
modalVars == <<selectedBrief, isApplicationModalOpen, applicationStep, selectedTrackId>>
uploadVars == <<isUploadModalOpen, isUploading, uploadState, uploadProgress, job>>

Fetch(coll, uid, initial) == [coll |-> coll, uid |-> uid, initial |-> initial]

\* The subscription effect run for uid: subscribeToBriefs(setBriefs),
\* subscribeToUserTracks(uid, setTracks), subscribeToUserApplications(uid,
\* setApplications); each sends its initial select.
EffectFetches(uid) ==
  {Fetch("briefs", Null, TRUE), Fetch("tracks", uid, TRUE),
   Fetch("applications", uid, TRUE)}

\* {isApplicationModalOpen && selectedBrief && ( ... )}
ModalShown == isApplicationModalOpen /\ selectedBrief # Null

\* App re-renders <Dashboard user={user} /> with another user: the effect's
\* cleanup removes the three channels and the effect subscribes for the new
\* uid.  The component is the same instance, so its state stays.
Dash_userChange(u) ==
  /\ u # user
  /\ userChanges < MaxUserChanges
  /\ user' = u
  /\ userChanges' = userChanges + 1
  /\ inflight' = inflight \cup EffectFetches(u)
  /\ UNCHANGED <<listVars, modalVars, uploadVars>>
  /\ UNCHANGED <<remote, nextId, svcRest, playerVars, storageVars, shellVars, formVars>>

\* A postgres_changes notification on a channel of the current subscriptions:
\* the handler sends a re-fetch.
Dash_postgresChange(coll) ==
  LET f == Fetch(coll, IF coll = "briefs" THEN Null ELSE user, FALSE)
  IN /\ f \notin inflight
     /\ Cardinality(inflight) < MaxInflight
     /\ inflight' = inflight \cup {f}
     /\ UNCHANGED <<user, userChanges, listVars, modalVars, uploadVars>>
     /\ UNCHANGED <<remote, nextId, svcRest, playerVars, storageVars, shellVars, formVars>>

\* What the callback of a select is invoked with, if it is invoked.
Delivered(f, outcome) ==
  IF f.initial
  THEN Sb_initialFetched(NewSub(f.coll, f.uid), RemoteRows(f.coll, f.uid), outcome, FALSE)
  ELSE Sb_refetched(NewSub(f.coll, f.uid), RemoteRows(f.coll, f.uid), outcome)

\* A select is answered; its callback is the state setter it was given,
\* whoever the user is by now.
Dash_fetchDone(f, outcome) ==
  /\ f \in inflight
  /\ inflight' = inflight \ {f}
  /\ LET d == Delivered(f, outcome)
     IN /\ briefs' = IF f.coll = "briefs" /\ d.got THEN d.last ELSE briefs
        /\ tracks' = IF f.coll = "tracks" /\ d.got THEN d.last ELSE tracks
        /\ applications' =
             IF f.coll = "applications" /\ d.got THEN d.last ELSE applications
  /\ UNCHANGED <<user, userChanges, modalVars, uploadVars>>
  /\ UNCHANGED <<remote, nextId, svcRest, playerVars, storageVars, shellVars, formVars>>

\* handleApply, the "Pitch Track" button of a listed brief.
Dash_handleApply(b) ==
  /\ ~ModalShown
  /\ ~isUploadModalOpen
  /\ editingTrack = NoId
  /\ \E k \in 1..Len(briefs) : briefs[k].id = b
  /\ selectedBrief' = b
  /\ applicationStep' = "select"
  /\ isApplicationModalOpen' = TRUE
  /\ UNCHANGED <<user, userChanges, inflight, listVars, selectedTrackId, uploadVars>>
  /\ UNCHANGED <<remote, nextId, svcRest, playerVars, storageVars, shellVars, formVars>>

\* The modal's close buttons: setIsApplicationModalOpen(false).
Dash_closeModal ==
  /\ ModalShown
  /\ isApplicationModalOpen' = FALSE
  /\ UNCHANGED <<user, userChanges, inflight, listVars, selectedBrief,
                 applicationStep, selectedTrackId, uploadVars>>
  /\ UNCHANGED <<remote, nextId, svcRest, playerVars, storageVars, shellVars, formVars>>

\* "Upload New Track": setApplicationStep('upload').
Dash_stepUpload ==
  /\ ModalShown
  /\ applicationStep = "select"
  /\ applicationStep' = "upload"
  /\ UNCHANGED <<user, userChanges, inflight, listVars, selectedBrief,
                 isApplicationModalOpen, selectedTrackId, uploadVars>>
  /\ UNCHANGED <<remote, nextId, svcRest, playerVars, storageVars, shellVars, formVars>>

\* A track of the library list: setSelectedTrackId(track.id),
\* setApplicationStep('confirm').
Dash_selectTrack(k) ==
  /\ ModalShown
  /\ applicationStep = "select"
  /\ k \in 1..Len(tracks)
  /\ selectedTrackId' = tracks[k].id
  /\ applicationStep' = "confirm"
  /\ UNCHANGED <<user, userChanges, inflight, listVars, selectedBrief,
                 isApplicationModalOpen, uploadVars>>
  /\ UNCHANGED <<remote, nextId, svcRest, playerVars, storageVars, shellVars, formVars>>

\* "Back" of the upload step, "Change Track" of the confirm step.
Dash_backToSelect ==
  /\ ModalShown
  /\ \/ applicationStep = "upload"
     \/ applicationStep = "confirm" /\ selectedTrackId # NoId
  /\ applicationStep' = "select"
  /\ UNCHANGED <<user, userChanges, inflight, listVars, selectedBrief,
                 isApplicationModalOpen, selectedTrackId, uploadVars>>
  /\ UNCHANGED <<remote, nextId, svcRest, playerVars, storageVars, shellVars, formVars>>

\* The "Upload Track" buttons: setIsUploadModalOpen(true).
Dash_openUpload ==
  /\ ~ModalShown
  /\ ~isUploadModalOpen
  /\ editingTrack = NoId
  /\ isUploadModalOpen' = TRUE
  /\ UNCHANGED <<user, userChanges, inflight, listVars, modalVars,
                 isUploading, uploadState, uploadProgress, job>>
  /\ UNCHANGED <<remote, nextId, svcRest, playerVars, storageVars, shellVars, formVars>>

\* The upload modal's backdrop and Cancel button, inert while uploading.
Dash_closeUpload ==
  /\ isUploadModalOpen
  /\ ~isUploading
  /\ isUploadModalOpen' = FALSE
  /\ UNCHANGED <<user, userChanges, inflight, listVars, modalVars,
                 isUploading, uploadState, uploadProgress, job>>
  /\ UNCHANGED <<remote, nextId, svcRest, playerVars, storageVars, shellVars, formVars>>

Job(kind, phase, uid, brief, trackId) ==
  [kind |-> kind, phase |-> phase, uid |-> uid, brief |-> brief, trackId |-> trackId]

\* The text of a tags field is a sequence of characters; MaxTagLen bounds its
\* length.
MaxTagLen == 3

Chars == {"a", "b", " ", ","}

TagInputs == UNION {[1..n -> Chars] : n \in 0..MaxTagLen}

\* The value of a title field: empty, or some text.
FormTitles == {"", "a"}

\* String.prototype.split(','): the pieces between the commas, empty pieces
\* included.
RECURSIVE SplitComma(_)
SplitComma(s) ==
  IF \E i \in 1..Len(s) : s[i] = ","
  THEN LET i == CHOOSE k \in 1..Len(s) :
                  s[k] = "," /\ \A j \in 1..(k - 1) : s[j] # ","
       IN  <<SubSeq(s, 1, i - 1)>> \o SplitComma(SubSeq(s, i + 1, Len(s)))
  ELSE <<s>>

RECURSIVE TrimStart(_)
TrimStart(s) == IF s # <<>> /\ Head(s) = " " THEN TrimStart(Tail(s)) ELSE s

RECURSIVE TrimEnd(_)
TrimEnd(s) ==
  IF s # <<>> /\ s[Len(s)] = " " THEN TrimEnd(SubSeq(s, 1, Len(s) - 1)) ELSE s

\* String.prototype.trim().
Trim(s) == TrimEnd(TrimStart(s))

\* tagsInput.split(',').map(t => t.trim()).filter(Boolean)
ParseTagsFiltered(tagsInput) ==
  SelectSeq([i \in 1..Len(SplitComma(tagsInput)) |-> Trim(SplitComma(tagsInput)[i])],
            LAMBDA t : t # <<>>)

\* tagsInput ? tagsInput.split(',').map(t => t.trim()) : []
ParseTags(tagsInput) ==
  IF tagsInput # <<>>
  THEN [i \in 1..Len(SplitComma(tagsInput)) |-> Trim(SplitComma(tagsInput)[i])]
  ELSE <<>>

\* What the last submit handler was given and how it went: "rejected" by its
\* validation, "started", "failed" in a catch block, "done".
Submit(handler, outcome, title, tagsInput) ==
  [handler |-> handler, outcome |-> outcome, title |-> title, tagsInput |-> tagsInput,
   bpm |-> "", description |-> ""]

\* if (!file || !title) return, with the validation turned off.
InvalidNever(file, title) == FALSE

\* if (!file || !title) return
Invalid(file, title) == ~file \/ title = ""

\* The file inputs: setUploadFile(f) in the upload modal when a file was
\* picked, setUploadFile(e.target.files?.[0] || null) in the application modal.
Dash_chooseFile(f) ==
  /\ \/ isUploadModalOpen /\ f
     \/ ModalShown /\ applicationStep = "upload"
  /\ ~isUploading
  /\ uploadFile # f
  /\ uploadFile' = f
  /\ UNCHANGED <<progressTimer, tags, lastSubmit, editingTrack, isSavingProfile>>
  /\ UNCHANGED <<user, userChanges, inflight, listVars, modalVars, uploadVars>>
  /\ UNCHANGED <<remote, nextId, svcRest, playerVars, storageVars, shellVars>>

\* handleLibraryUploadSubmit up to its first await: the form is read, the
\* handler returns when there is no file or no title, else the upload starts
\* and the simulated-progress interval is set.
Dash_handleLibraryUploadSubmit(title, tagsInput) ==
  /\ isUploadModalOpen
  /\ ~isUploading
  /\ tags' = ParseTags(tagsInput)
  /\ IF Invalid(uploadFile, title)
     THEN /\ lastSubmit' = Submit("library", "rejected", title, tagsInput)
          /\ UNCHANGED <<isUploading, uploadState, uploadProgress, job, progressTimer>>
     ELSE /\ lastSubmit' = Submit("library", "started", title, tagsInput)
          /\ isUploading' = TRUE
          /\ uploadState' = "uploading"
          /\ uploadProgress' = 0
          /\ progressTimer' = TRUE
          /\ job' = Job("library", "upload", user, Null, NoId)
  /\ UNCHANGED <<uploadFile, editingTrack, isSavingProfile>>
  /\ UNCHANGED <<user, userChanges, inflight, listVars, modalVars, isUploadModalOpen>>
  /\ UNCHANGED <<remote, nextId, svcRest, playerVars, storageVars, shellVars>>

\* handleSubmitNewTrackApplication up to its first await; user.uid and
\* selectedBrief are those of the render it was made in.
Dash_handleSubmitNewTrackApplication(title, tagsInput) ==
  /\ ModalShown
  /\ applicationStep = "upload"
  /\ ~isUploading
  /\ tags' = ParseTags(tagsInput)
  /\ IF Invalid(uploadFile, title)
     THEN /\ lastSubmit' = Submit("newApp", "rejected", title, tagsInput)
          /\ UNCHANGED <<isUploading, uploadState, uploadProgress, job, progressTimer>>
     ELSE /\ lastSubmit' = Submit("newApp", "started", title, tagsInput)
          /\ isUploading' = TRUE
          /\ uploadState' = "uploading"
          /\ uploadProgress' = 0
          /\ progressTimer' = TRUE
          /\ job' = Job("newApp", "upload", user, selectedBrief, NoId)
  /\ UNCHANGED <<uploadFile, editingTrack, isSavingProfile>>
  /\ UNCHANGED <<user, userChanges, inflight, listVars, modalVars, isUploadModalOpen>>
  /\ UNCHANGED <<remote, nextId, svcRest, playerVars, storageVars, shellVars>>

\* handleSubmitExistingTrackApplication up to its await.
Dash_handleSubmitExistingTrackApplication ==
  /\ ModalShown
  /\ applicationStep = "confirm"
  /\ selectedTrackId # NoId
  /\ ~isUploading
  /\ isUploading' = TRUE
  /\ job' = Job("existingApp", "submit", user, selectedBrief, selectedTrackId)
  /\ lastSubmit' = Submit("existingApp", "started", "", <<>>)
  /\ UNCHANGED <<uploadFile, progressTimer, tags, editingTrack, isSavingProfile>>
  /\ UNCHANGED <<user, userChanges, inflight, listVars, modalVars,
                 isUploadModalOpen, uploadState, uploadProgress>>
  /\ UNCHANGED <<remote, nextId, svcRest, playerVars, storageVars, shellVars>>

\* One firing of the setInterval(..., 200) callback: ten more percent up to
\* 90; at 90 the library upload's callback clears its own interval, the
\* application's does not.
Dash_progressTick ==
  /\ progressTimer
  /\ IF uploadProgress >= 90
     THEN /\ uploadProgress' = 90
          /\ progressTimer' = (job.kind # "library")
     ELSE /\ uploadProgress' = uploadProgress + 10
          /\ UNCHANGED progressTimer
  /\ UNCHANGED <<uploadFile, tags, lastSubmit, editingTrack, isSavingProfile>>
  /\ UNCHANGED <<user, userChanges, inflight, listVars, modalVars,
                 isUploadModalOpen, isUploading, uploadState, job>>
  /\ UNCHANGED <<remote, nextId, svcRest, playerVars, storageVars, shellVars>>

\* The catch block, showing the upload as still under way.
Dash_caughtBackToUploading ==
  /\ progressTimer' = FALSE
  /\ isUploading' = FALSE
  /\ uploadState' = "uploading"
  /\ uploadProgress' = IF job.kind = "library" THEN 0 ELSE uploadProgress
  /\ job' = NoJob
  /\ lastSubmit' = [lastSubmit EXCEPT !.outcome = "failed"]

\* The catch block without its clearInterval.
Dash_caughtTimerLeft ==
  /\ UNCHANGED progressTimer
  /\ isUploading' = FALSE
  /\ uploadState' = "idle"
  /\ uploadProgress' = IF job.kind = "library" THEN 0 ELSE uploadProgress
  /\ job' = NoJob
  /\ lastSubmit' = [lastSubmit EXCEPT !.outcome = "failed"]

\* The catch block of the two upload handlers: clearInterval, the alert, and
\* the form back to idle.
Dash_caught ==
  /\ progressTimer' = FALSE
  /\ isUploading' = FALSE
  /\ uploadState' = "idle"
  /\ uploadProgress' = IF job.kind = "library" THEN 0 ELSE uploadProgress
  /\ job' = NoJob
  /\ lastSubmit' = [lastSubmit EXCEPT !.outcome = "failed"]

\* await uploadTrackFile settles and the handler goes on to the metadata
\* insert whether or not the file was stored.
Dash_uploadTrackFileDoneUnchecked(ok) ==
  /\ job.phase = "upload"
  /\ progressTimer' = FALSE
  /\ uploadProgress' = 95
  /\ uploadState' = IF ok THEN "processing" ELSE uploadState
  /\ job' = [job EXCEPT !.phase = "save"]
  /\ UNCHANGED <<isUploading, lastSubmit>>
  /\ UNCHANGED <<uploadFile, tags, editingTrack, isSavingProfile>>
  /\ UNCHANGED <<user, userChanges, inflight, listVars, modalVars, isUploadModalOpen>>
  /\ UNCHANGED <<remote, nextId, svcRest, playerVars, storageVars, shellVars>>

\* await uploadTrackFile(file, user.uid) settles.
Dash_uploadTrackFileDone(ok) ==
  /\ job.phase = "upload"
  /\ IF ok
     THEN /\ progressTimer' = FALSE
          /\ uploadProgress' = 95
          /\ uploadState' = "processing"
          /\ job' = [job EXCEPT !.phase = "save"]
          /\ UNCHANGED <<isUploading, lastSubmit>>
     ELSE Dash_caught
  /\ UNCHANGED <<uploadFile, tags, editingTrack, isSavingProfile>>
  /\ UNCHANGED <<user, userChanges, inflight, listVars, modalVars, isUploadModalOpen>>
  /\ UNCHANGED <<remote, nextId, svcRest, playerVars, storageVars, shellVars>>

\* await saveTrackMetadata({...}, user.uid) settles; on success the returned
\* track is put in front of the list.
Dash_saveTrackMetadataDone(title, ok) ==
  /\ job.phase = "save"
  /\ IF ok
     THEN /\ Len(remote.tracks) < MaxDashTracks
          /\ remote' = Sb_insertTrack(remote, nextId, title, job.uid)
          /\ nextId' = nextId + 1
          /\ tracks' = <<TrackRow(nextId, job.uid, title, "remote")>> \o tracks
          /\ IF job.kind = "library"
             THEN /\ uploadProgress' = 100
                  /\ uploadState' = "success"
                  /\ job' = [job EXCEPT !.phase = "success"]
                  /\ lastSubmit' = [lastSubmit EXCEPT !.outcome = "done"]
             ELSE /\ job' = [job EXCEPT !.phase = "submit", !.trackId = nextId]
                  /\ UNCHANGED <<uploadProgress, uploadState, lastSubmit>>
          /\ UNCHANGED <<isUploading, progressTimer>>
     ELSE /\ Dash_caught
          /\ UNCHANGED <<remote, nextId, tracks>>
  /\ UNCHANGED <<uploadFile, tags, editingTrack, isSavingProfile>>
  /\ UNCHANGED <<user, userChanges, inflight, briefs, applications, modalVars,
                 isUploadModalOpen>>
  /\ UNCHANGED <<svcRest, playerVars, storageVars, shellVars>>

\* await submitApplication({briefId, trackId, ...}, user.uid) settles.
Dash_submitApplicationDone(ok) ==
  /\ job.phase = "submit"
  /\ IF ok
     THEN /\ Len(remote.applications) < MaxRows
          /\ remote' = Sb_insertApp(remote, nextId, job.brief, job.trackId, job.uid)
          /\ nextId' = nextId + 1
          /\ lastSubmit' = [lastSubmit EXCEPT !.outcome = "done"]
          /\ IF job.kind = "newApp"
             THEN /\ uploadProgress' = 100
                  /\ uploadState' = "success"
                  /\ job' = [job EXCEPT !.phase = "success"]
                  /\ UNCHANGED <<isUploading, modalVars>>
             ELSE /\ isApplicationModalOpen' = FALSE
                  /\ selectedBrief' = Null
                  /\ selectedTrackId' = NoId
                  /\ isUploading' = FALSE
                  /\ job' = NoJob
                  /\ UNCHANGED <<applicationStep, uploadProgress, uploadState>>
          /\ UNCHANGED progressTimer
     ELSE /\ IF job.kind = "newApp"
             THEN Dash_caught
             ELSE /\ isUploading' = FALSE
                  /\ job' = NoJob
                  /\ lastSubmit' = [lastSubmit EXCEPT !.outcome = "failed"]
                  /\ UNCHANGED <<uploadProgress, uploadState, progressTimer>>
          /\ UNCHANGED <<remote, nextId, modalVars>>
  /\ UNCHANGED <<uploadFile, tags, editingTrack, isSavingProfile>>
  /\ UNCHANGED <<user, userChanges, inflight, listVars, isUploadModalOpen>>
  /\ UNCHANGED <<svcRest, playerVars, storageVars, shellVars>>

\* The setTimeout(..., 1500) callback of a successful upload handler.
Dash_successTimeout ==
  /\ job.phase = "success"
  /\ IF job.kind = "library"
     THEN /\ isUploadModalOpen' = FALSE
          /\ uploadProgress' = 0
          /\ UNCHANGED modalVars
     ELSE /\ isApplicationModalOpen' = FALSE
          /\ selectedBrief' = Null
          /\ UNCHANGED <<applicationStep, selectedTrackId, isUploadModalOpen,
                         uploadProgress>>
  /\ isUploading' = FALSE
  /\ uploadState' = "idle"
  /\ uploadFile' = FALSE
  /\ job' = NoJob
  /\ UNCHANGED <<progressTimer, tags, lastSubmit, editingTrack, isSavingProfile>>
  /\ UNCHANGED <<user, userChanges, inflight, listVars>>
  /\ UNCHANGED <<remote, nextId, svcRest, playerVars, storageVars, shellVars>>

\* The pencil button of a library row: handleEditTrack(track) opens the edit
\* modal on it.  editingTrack is the id of the track the modal shows, NoId
\* when it is closed.
Dash_handleEditTrack(k) ==
  /\ ~ModalShown
  /\ ~isUploadModalOpen
  /\ editingTrack = NoId
  /\ k \in 1..Len(tracks)
  /\ editingTrack' = tracks[k].id
  /\ UNCHANGED <<uploadFile, progressTimer, tags, lastSubmit, isSavingProfile>>
  /\ UNCHANGED <<user, userChanges, inflight, listVars, modalVars, uploadVars>>
  /\ UNCHANGED <<remote, nextId, svcRest, playerVars, storageVars, shellVars>>

\* The edit modal's backdrop and Cancel button, inert while isUploading.
Dash_closeEdit ==
  /\ editingTrack # NoId
  /\ ~isUploading
  /\ editingTrack' = NoId
  /\ UNCHANGED <<uploadFile, progressTimer, tags, lastSubmit, isSavingProfile>>
  /\ UNCHANGED <<user, userChanges, inflight, listVars, modalVars, uploadVars>>
  /\ UNCHANGED <<remote, nextId, svcRest, playerVars, storageVars, shellVars>>

\* The texts of the edit form's BPM field (a number input bound to uploadBpm)
\* and of its description.
BpmTexts == {"", "0", "120"}

Descriptions == {"", "d"}

\* parseInt of a text of the BPM field.
ParseInt(text) == CASE text = "0" -> 0 [] text = "120" -> 120

\* The object handleEditTrackSubmit builds from the form it read, once for
\* updateTrackMetadata and once more for the optimistic update.
EditUpdates(form) ==
  [title |-> form.title,
   bpm |-> IF form.bpm # "" THEN ParseInt(form.bpm) ELSE NoBpm,
   tags |-> ParseTags(form.tagsInput),
   description |-> form.description]

\* handleEditTrackSubmit up to its await: the form is read and isUploading is
\* reused as the loading flag.
Dash_handleEditTrackSubmit(title, tagsInput, uploadBpm, description) ==
  /\ editingTrack # NoId
  /\ ~isUploading
  /\ tags' = ParseTags(tagsInput)
  /\ lastSubmit' = [Submit("edit", "started", title, tagsInput) EXCEPT
                      !.bpm = uploadBpm, !.description = description]
  /\ isUploading' = TRUE
  /\ job' = Job("edit", "update", user, Null, editingTrack)
  /\ UNCHANGED <<uploadFile, progressTimer, editingTrack, isSavingProfile>>
  /\ UNCHANGED <<user, userChanges, inflight, listVars, modalVars,
                 isUploadModalOpen, uploadState, uploadProgress>>
  /\ UNCHANGED <<remote, nextId, svcRest, playerVars, storageVars, shellVars>>

\* await updateTrackMetadata(editingTrack.id, {title, ...}) settles, title
\* being the one the handler read from the form: the
\* optimistic update of the list and the closing of the modal, or the catch
\* block's alert; finally setIsUploading(false).
Dash_updateTrackMetadataDone(ok) ==
  /\ job.phase = "update"
  /\ IF ok
     THEN /\ remote' = Sb_updateTrack(remote, job.trackId, EditUpdates(lastSubmit))
          /\ tracks' = [k \in 1..Len(tracks) |->
                          IF tracks[k].id = job.trackId
                          THEN Spread(tracks[k], EditUpdates(lastSubmit))
                          ELSE tracks[k]]
          /\ editingTrack' = NoId
          /\ lastSubmit' = [lastSubmit EXCEPT !.outcome = "done"]
     ELSE /\ lastSubmit' = [lastSubmit EXCEPT !.outcome = "failed"]
          /\ UNCHANGED <<remote, tracks, editingTrack>>
  /\ isUploading' = FALSE
  /\ job' = NoJob
  /\ UNCHANGED <<uploadFile, progressTimer, tags, isSavingProfile>>
  /\ UNCHANGED <<user, userChanges, inflight, briefs, applications, modalVars,
                 isUploadModalOpen, uploadState, uploadProgress>>
  /\ UNCHANGED <<nextId, svcRest, playerVars, storageVars, shellVars>>

\* "Save Changes" of the profile tab, disabled while isSavingProfile:
\* handleSaveProfile up to its await.
Dash_handleSaveProfile ==
  /\ ~ModalShown
  /\ ~isUploadModalOpen
  /\ editingTrack = NoId
  /\ ~isSavingProfile
  /\ isSavingProfile' = TRUE
  /\ lastCall' = NoCall
  /\ UNCHANGED <<uploadFile, progressTimer, tags, lastSubmit, editingTrack>>
  /\ UNCHANGED <<user, userChanges, inflight, listVars, modalVars, uploadVars>>
  /\ UNCHANGED <<remote, nextId, backend, mockDb, now, subs, playerVars, storageVars, shellVars>>

\* await updateArtistProfile(user.uid, {socials}) settles, returned or thrown:
\* an alert either way, finally setIsSavingProfile(false).
Dash_updateArtistProfileDone(ok) ==
  /\ isSavingProfile
  /\ lastCall' = Call(ok, IF ok THEN "returned" ELSE "threw")
  /\ isSavingProfile' = FALSE
  /\ UNCHANGED <<uploadFile, progressTimer, tags, lastSubmit, editingTrack>>
  /\ UNCHANGED <<user, userChanges, inflight, listVars, modalVars, uploadVars>>
  /\ UNCHANGED <<remote, nextId, backend, mockDb, now, subs, playerVars, storageVars, shellVars>>

\* The insert of saveTrackMetadata is done in the database; the response is
\* on its way to the handler, which still awaits it.
Dash_saveTrackMetadataStored(title) ==
  /\ job.phase = "save"
  /\ Len(remote.tracks) < MaxDashTracks
  /\ remote' = Sb_insertTrack(remote, nextId, title, job.uid)
  /\ nextId' = nextId + 1
  /\ job' = [job EXCEPT !.phase = "saved", !.trackId = nextId]
  /\ UNCHANGED <<user, userChanges, inflight, listVars, modalVars,
                 isUploadModalOpen, isUploading, uploadState, uploadProgress>>
  /\ UNCHANGED <<svcRest, playerVars, storageVars, shellVars, formVars>>

\* await saveTrackMetadata returns the stored track: setTracks(prev =>
\* [savedTrack, ...prev]) and the handler goes on.
Dash_saveTrackMetadataReturned ==
  /\ job.phase = "saved"
  /\ LET k == FindIndex(remote.tracks, job.trackId)
     IN  tracks' = <<remote.tracks[k]>> \o tracks
  /\ IF job.kind = "library"
     THEN /\ uploadProgress' = 100
          /\ uploadState' = "success"
          /\ job' = [job EXCEPT !.phase = "success"]
          /\ lastSubmit' = [lastSubmit EXCEPT !.outcome = "done"]
     ELSE /\ job' = [job EXCEPT !.phase = "submit"]
          /\ UNCHANGED <<uploadProgress, uploadState, lastSubmit>>
  /\ UNCHANGED <<uploadFile, progressTimer, tags, editingTrack, isSavingProfile>>
  /\ UNCHANGED <<user, userChanges, inflight, briefs, applications, modalVars,
                 isUploadModalOpen, isUploading>>
  /\ UNCHANGED <<remote, nextId, svcRest, playerVars, storageVars, shellVars>>

\* SpecDash: the application flow of the Dashboard just mounted for Me on an
\* empty database.
InitDash ==
  /\ backend = "supabase"
  /\ remote = EmptyDb
  /\ mockDb = EmptyDb
  /\ now = 1
  /\ nextId = 1
  /\ subs = <<>>
  /\ lastCall = NoCall
  /\ user = Me
  /\ briefs = <<>>
  /\ tracks = <<>>
  /\ applications = <<>>
  /\ selectedBrief = Null
  /\ isApplicationModalOpen = FALSE
  /\ applicationStep = "select"
  /\ selectedTrackId = NoId
  /\ isUploadModalOpen = FALSE
  /\ isUploading = FALSE
  /\ uploadState = "idle"
  /\ uploadProgress = 0
  /\ job = NoJob
  /\ inflight = EffectFetches(Me)
  /\ userChanges = 0
  /\ IdleForm
  /\ IdlePlayer
  /\ IdleStorage
  /\ IdleShell

NextDash ==
  \/ \E u \in Users : Dash_userChange(u)
  \/ \E c \in Colls : Dash_postgresChange(c)
  \/ \E f \in inflight, o \in FetchOutcomes : Dash_fetchDone(f, o)
  \/ \E b \in Pitched : Dash_handleApply(b)
  \/ Dash_closeModal
  \/ Dash_stepUpload
  \/ \E k \in 1..Len(tracks) : Dash_selectTrack(k)
  \/ Dash_backToSelect
  \/ \E f \in BOOLEAN : Dash_chooseFile(f)
  \/ Dash_handleSubmitNewTrackApplication("a", <<>>)
  \/ Dash_handleSubmitExistingTrackApplication
  \/ \E ok \in BOOLEAN : Dash_uploadTrackFileDone(ok)
  \/ \E ok \in BOOLEAN : Dash_saveTrackMetadataDone("a", ok)
  \/ \E ok \in BOOLEAN : Dash_submitApplicationDone(ok)
  \/ Dash_successTimeout

SpecDash == InitDash /\ [][NextDash]_vars

\* SpecUpload: the forms of the Dashboard mounted for Me once its three
\* initial fetches have answered from a database holding the briefs.
InitUpload ==
  /\ backend = "supabase"
  /\ remote = EmptyDb
  /\ mockDb = EmptyDb
  /\ now = 1
  /\ nextId = 1
  /\ subs = <<>>
  /\ lastCall = NoCall
  /\ user = Me
  /\ briefs = RemoteBriefs
  /\ tracks = <<>>
  /\ applications = <<>>
  /\ selectedBrief = Null
  /\ isApplicationModalOpen = FALSE
  /\ applicationStep = "select"
  /\ selectedTrackId = NoId
  /\ isUploadModalOpen = FALSE
  /\ isUploading = FALSE
  /\ uploadState = "idle"
  /\ uploadProgress = 0
  /\ job = NoJob
  /\ inflight = {}
  /\ userChanges = 0
  /\ IdleForm
  /\ IdlePlayer
  /\ IdleStorage
  /\ IdleShell

NextUpload ==
  \/ \E b \in Pitched : Dash_handleApply(b)
  \/ Dash_closeModal
  \/ Dash_stepUpload
  \/ \E k \in 1..Len(tracks) : Dash_selectTrack(k)
  \/ Dash_openUpload
  \/ Dash_closeUpload
  \/ \E f \in BOOLEAN : Dash_chooseFile(f)
  \/ \E title \in FormTitles : Dash_handleLibraryUploadSubmit(title, <<>>)
  \/ \E title \in FormTitles : Dash_handleSubmitNewTrackApplication(title, <<>>)
  \/ Dash_handleSubmitExistingTrackApplication
  \/ Dash_progressTick
  \/ \E ok \in BOOLEAN : Dash_uploadTrackFileDone(ok)
  \/ \E ok \in BOOLEAN : Dash_saveTrackMetadataDone("a", ok)
  \/ \E ok \in BOOLEAN : Dash_submitApplicationDone(ok)
  \/ Dash_successTimeout
  \/ \E k \in 1..Len(tracks) : Dash_handleEditTrack(k)
  \/ Dash_closeEdit
  \/ Dash_handleEditTrackSubmit("b", <<>>, "", "")
  \/ \E ok \in BOOLEAN : Dash_updateTrackMetadataDone(ok)
  \/ Dash_handleSaveProfile
  \/ \E ok \in BOOLEAN : Dash_updateArtistProfileDone(ok)

SpecUpload == InitUpload /\ [][NextUpload]_vars

\* SpecTags: the three forms with a tags field, given any text in it.
NextTags ==
  \/ \E b \in Pitched : Dash_handleApply(b)
  \/ Dash_stepUpload
  \/ Dash_openUpload
  \/ Dash_chooseFile(TRUE)
  \/ \E ti \in TagInputs : Dash_handleLibraryUploadSubmit("a", ti)
  \/ \E ti \in TagInputs : Dash_handleSubmitNewTrackApplication("a", ti)
  \/ Dash_uploadTrackFileDone(TRUE)
  \/ Dash_saveTrackMetadataDone("a", TRUE)
  \/ Dash_submitApplicationDone(TRUE)
  \/ Dash_successTimeout
  \/ \E k \in 1..Len(tracks) : Dash_handleEditTrack(k)
  \/ \E ti \in TagInputs : Dash_handleEditTrackSubmit("b", ti, "", "")
  \/ Dash_updateTrackMetadataDone(TRUE)

SpecTags == InitUpload /\ [][NextTags]_vars

----------------------------------------------------------------------------
(* Properties of the application flow.                                     *)

\* C1: the ownership invariant.  Every application in the store references a
\* track whose userId is the application's userId, whatever the user did in
\* the Dashboard and whether or not the logged-in user changed.
C1_OwnershipInvariant ==
  \A i \in 1..Len(remote.applications) :
    \A k \in 1..Len(remote.tracks) :
      remote.tracks[k].id = remote.applications[i].trackId
        => remote.tracks[k].userId = remote.applications[i].userId

\* An application made with a newly uploaded track references a track of the
\* applicant.
C1_Witness ==
  /\ Len(remote.applications) = 1
  /\ \E k \in 1..Len(remote.tracks) :
       /\ remote.tracks[k].id = remote.applications[1].trackId
       /\ remote.tracks[k].userId = remote.applications[1].userId

\* C2: the store holds at most one application per (userId, briefId).
C2_OncePerUserAndBrief ==
  \A i, j \in 1..Len(remote.applications) :
    (/\ remote.applications[i].userId = remote.applications[j].userId
     /\ remote.applications[i].briefId = remote.applications[j].briefId) => i = j

\* The user has an application for a brief and the modal is open for that
\* brief again, with a track chosen.
C2_Witness ==
  /\ Len(remote.applications) = 1
  /\ ModalShown
  /\ selectedBrief = remote.applications[1].briefId
  /\ user = remote.applications[1].userId
  /\ applicationStep = "confirm"
  /\ selectedTrackId # NoId

----------------------------------------------------------------------------
(* The playback controller of components/Dashboard.tsx.                    *)

MaxQueue == 3
MaxTime == 5

\* A library of n tracks of Me, as the tracks subscription delivers it.
Library(n) == [k \in 1..n |-> TrackRow(k, Me, "a", "remote")]

\* currentTrack?.id === track.id
IsCurrent(track) == currentTrack # <<>> /\ currentTrack[1].id = track.id

\* The audio element loads a new src from position 0; the same src plays on.
Loaded(next) ==
  IF currentTrack # <<>> /\ currentTrack[1].id = next.id THEN currentTime ELSE 0

\* A faulty handlePlayTrack: the index is the 1-based position in the list.
HandlePlayTrackOneBased(track, contextTracks) ==
  IF IsCurrent(track)
  THEN /\ isPlaying' = ~isPlaying
       /\ UNCHANGED <<currentTrack, queue, currentTrackIndex, currentTime>>
  ELSE /\ queue' = contextTracks
       /\ currentTrackIndex' = FindIndex(contextTracks, track.id)
       /\ currentTrack' = <<track>>
       /\ isPlaying' = TRUE
       /\ currentTime' = 0

\* handlePlayTrack(track, contextTracks), lines 954-964 and 249-258.
HandlePlayTrack(track, contextTracks) ==
  IF IsCurrent(track)
  THEN /\ isPlaying' = ~isPlaying
       /\ UNCHANGED <<currentTrack, queue, currentTrackIndex, currentTime>>
  ELSE /\ queue' = contextTracks
       /\ currentTrackIndex' = FindIndex(contextTracks, track.id) - 1
       /\ currentTrack' = <<track>>
       /\ isPlaying' = TRUE
       /\ currentTime' = 0

\* A faulty advance: an automatic advance stops at the end of the queue
\* whatever the loop mode.
HandleNextTrackStopsAtEnd(isAuto) ==
  IF Len(queue) = 0 \/ currentTrackIndex = -1
  THEN UNCHANGED <<currentTrack, isPlaying, queue, currentTrackIndex, currentTime>>
  ELSE IF isAuto /\ currentTrackIndex = Len(queue) - 1
       THEN /\ isPlaying' = FALSE
            /\ UNCHANGED <<currentTrack, queue, currentTrackIndex, currentTime>>
       ELSE LET nextIndex == (currentTrackIndex + 1) % Len(queue)
            IN /\ currentTrackIndex' = nextIndex
               /\ currentTrack' = <<queue[nextIndex + 1]>>
               /\ isPlaying' = TRUE
               /\ currentTime' = 0
               /\ UNCHANGED queue

\* handleNextTrack(isAuto), lines 966-979.
HandleNextTrack(isAuto) ==
  IF Len(queue) = 0 \/ currentTrackIndex = -1
  THEN UNCHANGED <<currentTrack, isPlaying, queue, currentTrackIndex, currentTime>>
  ELSE IF isAuto /\ loopMode = "off" /\ currentTrackIndex = Len(queue) - 1
       THEN /\ isPlaying' = FALSE
            /\ UNCHANGED <<currentTrack, queue, currentTrackIndex, currentTime>>
       ELSE LET nextIndex == (currentTrackIndex + 1) % Len(queue)
            IN /\ currentTrackIndex' = nextIndex
               /\ currentTrack' = <<queue[nextIndex + 1]>>
               /\ isPlaying' = TRUE
               /\ currentTime' = Loaded(queue[nextIndex + 1])
               /\ UNCHANGED queue

\* handleNextTrack, lines 260-266.
HandleNextTrackCompact ==
  IF Len(queue) = 0
  THEN UNCHANGED <<currentTrack, isPlaying, queue, currentTrackIndex, currentTime>>
  ELSE LET nextIdx == (currentTrackIndex + 1) % Len(queue)
       IN /\ currentTrackIndex' = nextIdx
          /\ currentTrack' = <<queue[nextIdx + 1]>>
          /\ isPlaying' = TRUE
          /\ currentTime' = Loaded(queue[nextIdx + 1])
          /\ UNCHANGED queue

\* The play button of a library row.
Pl_handlePlayTrack(k) ==
  /\ k \in 1..Len(tracks)
  /\ HandlePlayTrack(tracks[k], tracks)
  /\ playerEvent' = "play"
  /\ eventTime' = currentTime
  /\ UNCHANGED <<volume, prevVolume, volumeOps>>
  /\ UNCHANGED <<loopMode, gatewayVars, dashVars, storageVars, shellVars>>

\* The skip-forward button of the player bar, shown while there is a track.
Pl_next ==
  /\ currentTrack # <<>>
  /\ HandleNextTrack(FALSE)
  /\ playerEvent' = "next"
  /\ eventTime' = currentTime
  /\ UNCHANGED <<volume, prevVolume, volumeOps>>
  /\ UNCHANGED <<loopMode, gatewayVars, dashVars, storageVars, shellVars>>

\* The audio element's onEnded, lines 1062-1071: the playing track is over.
Pl_onEnded ==
  /\ currentTrack # <<>>
  /\ isPlaying
  /\ IF loopMode = "one"
     THEN /\ currentTime' = 0
          /\ UNCHANGED <<currentTrack, isPlaying, queue, currentTrackIndex>>
     ELSE HandleNextTrack(TRUE)
  /\ playerEvent' = "ended"
  /\ eventTime' = currentTime
  /\ UNCHANGED <<volume, prevVolume, volumeOps>>
  /\ UNCHANGED <<loopMode, gatewayVars, dashVars, storageVars, shellVars>>

\* A faulty skip-back: the track is restarted from 3 seconds on.
HandlePrevTrackFromThree ==
  IF Len(queue) = 0 \/ currentTrackIndex = -1
  THEN UNCHANGED <<currentTrack, isPlaying, queue, currentTrackIndex, currentTime>>
  ELSE IF currentTime >= 3
       THEN /\ currentTime' = 0
            /\ UNCHANGED <<currentTrack, isPlaying, queue, currentTrackIndex>>
       ELSE LET prevIndex == (currentTrackIndex - 1 + Len(queue)) % Len(queue)
            IN /\ currentTrackIndex' = prevIndex
               /\ currentTrack' = <<queue[prevIndex + 1]>>
               /\ isPlaying' = TRUE
               /\ currentTime' = 0
               /\ UNCHANGED queue

\* A faulty skip-back: the track is never restarted.
HandlePrevTrackNoRestart ==
  IF Len(queue) = 0 \/ currentTrackIndex = -1
  THEN UNCHANGED <<currentTrack, isPlaying, queue, currentTrackIndex, currentTime>>
  ELSE LET prevIndex == (currentTrackIndex - 1 + Len(queue)) % Len(queue)
       IN /\ currentTrackIndex' = prevIndex
          /\ currentTrack' = <<queue[prevIndex + 1]>>
          /\ isPlaying' = TRUE
          /\ currentTime' = 0
          /\ UNCHANGED queue

\* handlePrevTrack, lines 981-994.
HandlePrevTrack ==
  IF Len(queue) = 0 \/ currentTrackIndex = -1
  THEN UNCHANGED <<currentTrack, isPlaying, queue, currentTrackIndex, currentTime>>
  ELSE IF currentTime > 3
       THEN /\ currentTime' = 0
            /\ UNCHANGED <<currentTrack, isPlaying, queue, currentTrackIndex>>
       ELSE LET prevIndex == (currentTrackIndex - 1 + Len(queue)) % Len(queue)
            IN /\ currentTrackIndex' = prevIndex
               /\ currentTrack' = <<queue[prevIndex + 1]>>
               /\ isPlaying' = TRUE
               /\ currentTime' = Loaded(queue[prevIndex + 1])
               /\ UNCHANGED queue

\* The skip-back button of the player bar.
Pl_handlePrevTrack ==
  /\ currentTrack # <<>>
  /\ HandlePrevTrack
  /\ playerEvent' = "prev"
  /\ eventTime' = currentTime
  /\ UNCHANGED <<volume, prevVolume, volumeOps>>
  /\ UNCHANGED <<loopMode, gatewayVars, dashVars, storageVars, shellVars>>

\* toggleLoop, lines 996-1000.
Pl_toggleLoop ==
  /\ currentTrack # <<>>
  /\ loopMode' = CASE loopMode = "off" -> "all"
                   [] loopMode = "all" -> "one"
                   [] OTHER -> "off"
  /\ playerEvent' = "loop"
  /\ eventTime' = currentTime
  /\ UNCHANGED <<volume, prevVolume, volumeOps>>
  /\ UNCHANGED <<currentTrack, isPlaying, queue, currentTrackIndex, currentTime>>
  /\ UNCHANGED <<gatewayVars, dashVars, storageVars, shellVars>>

\* The play/pause button of the player bar: setIsPlaying(!isPlaying).
Pl_togglePlay ==
  /\ currentTrack # <<>>
  /\ isPlaying' = ~isPlaying
  /\ playerEvent' = "toggle"
  /\ eventTime' = currentTime
  /\ UNCHANGED <<volume, prevVolume, volumeOps>>
  /\ UNCHANGED <<currentTrack, loopMode, queue, currentTrackIndex, currentTime>>
  /\ UNCHANGED <<gatewayVars, dashVars, storageVars, shellVars>>

\* The audio element's onError, lines 1072-1081.
Pl_onError ==
  /\ currentTrack # <<>>
  /\ isPlaying' = FALSE
  /\ playerEvent' = "error"
  /\ eventTime' = currentTime
  /\ UNCHANGED <<volume, prevVolume, volumeOps>>
  /\ UNCHANGED <<currentTrack, loopMode, queue, currentTrackIndex, currentTime>>
  /\ UNCHANGED <<gatewayVars, dashVars, storageVars, shellVars>>

\* The audio element plays on for a second.
Pl_timePasses ==
  /\ currentTrack # <<>>
  /\ isPlaying
  /\ currentTime < MaxTime
  /\ currentTime' = currentTime + 1
  /\ playerEvent' = "time"
  /\ eventTime' = currentTime
  /\ UNCHANGED <<volume, prevVolume, volumeOps>>
  /\ UNCHANGED <<currentTrack, isPlaying, loopMode, queue, currentTrackIndex>>
  /\ UNCHANGED <<gatewayVars, dashVars, storageVars, shellVars>>

\* onEnded={handleNextTrack}, line 322.
PlC_onEnded ==
  /\ currentTrack # <<>>
  /\ isPlaying
  /\ HandleNextTrackCompact
  /\ playerEvent' = "ended"
  /\ eventTime' = currentTime
  /\ UNCHANGED <<volume, prevVolume, volumeOps>>
  /\ UNCHANGED <<loopMode, gatewayVars, dashVars, storageVars, shellVars>>

\* The Dashboard with a library of up to MaxQueue tracks delivered and
\* nothing played yet.
InitPlayer ==
  /\ backend = "supabase"
  /\ \E n \in 0..MaxQueue :
       /\ remote = [tracks |-> Library(n), applications |-> <<>>]
       /\ tracks = Library(n)
       /\ nextId = n + 1
  /\ mockDb = EmptyDb
  /\ now = 1
  /\ subs = <<>>
  /\ lastCall = NoCall
  /\ user = Me
  /\ briefs = RemoteBriefs
  /\ applications = <<>>
  /\ selectedBrief = Null
  /\ isApplicationModalOpen = FALSE
  /\ applicationStep = "select"
  /\ selectedTrackId = NoId
  /\ isUploadModalOpen = FALSE
  /\ isUploading = FALSE
  /\ uploadState = "idle"
  /\ uploadProgress = 0
  /\ job = NoJob
  /\ inflight = {}
  /\ userChanges = 0
  /\ IdleForm
  /\ IdlePlayer
  /\ IdleStorage
  /\ IdleShell

\* SpecPlayer: the controller of lines 954-1082.
NextPlayer ==
  \/ \E k \in 1..Len(tracks) : Pl_handlePlayTrack(k)
  \/ Pl_next
  \/ Pl_onEnded
  \/ Pl_handlePrevTrack
  \/ Pl_toggleLoop
  \/ Pl_togglePlay
  \/ Pl_onError
  \/ Pl_timePasses

SpecPlayer == InitPlayer /\ [][NextPlayer]_vars

\* SpecPlayerCompact: the controller of lines 249-322, which has a play button
\* per library row, a play/pause button and the audio element.
NextPlayerCompact ==
  \/ \E k \in 1..Len(tracks) : Pl_handlePlayTrack(k)
  \/ Pl_togglePlay
  \/ PlC_onEnded
  \/ Pl_timePasses

SpecPlayerCompact == InitPlayer /\ [][NextPlayerCompact]_vars

\* C10: with loopMode off, when the last track of the queue ends playback
\* stops: isPlaying becomes false, and currentTrack and the queue index stay
\* as they are.
C10_StopsAtEndOfQueue ==
  [][ (/\ playerEvent' = "ended"
       /\ loopMode = "off"
       /\ Len(queue) > 0
       /\ currentTrackIndex = Len(queue) - 1)
        => (/\ ~isPlaying'
            /\ currentTrack' = currentTrack
            /\ currentTrackIndex' = currentTrackIndex) ]_vars

\* The last track of a queue of three is playing with loopMode off.
C10_Witness ==
  /\ Len(queue) = 3
  /\ currentTrackIndex = 2
  /\ currentTrack = <<queue[3]>>
  /\ isPlaying
  /\ loopMode = "off"


\* C11: with loopMode all, when the last track of the queue ends the
\* controller advances to queue index 0, currentTrack becomes queue[0] and
\* isPlaying is true.
C11_WrapsWithLoopAll ==
  [][ (/\ playerEvent' = "ended"
       /\ loopMode = "all"
       /\ Len(queue) > 0
       /\ currentTrackIndex = Len(queue) - 1)
        => (/\ currentTrackIndex' = 0
            /\ currentTrack' = <<queue[1]>>
            /\ isPlaying') ]_vars

\* The last track of a queue of three has ended with loopMode all and the
\* first track is playing.
C11_Witness ==
  /\ playerEvent = "ended"
  /\ loopMode = "all"
  /\ Len(queue) = 3
  /\ currentTrackIndex = 0
  /\ currentTrack = <<queue[1]>>
  /\ isPlaying

\* C12: previous() restarts the current track (time 0, currentTrack and queue
\* index unchanged) when more than 3 seconds of it have elapsed, and
\* otherwise moves to queue index (index - 1 + len) mod len and plays it.
C12_PreviousRestartsOrMovesBack ==
  [][ (playerEvent' = "prev" /\ currentTrack # <<>>)
        => IF currentTime > 3
           THEN /\ currentTime' = 0
                /\ currentTrack' = currentTrack
                /\ currentTrackIndex' = currentTrackIndex
           ELSE /\ currentTrackIndex' =
                     (currentTrackIndex - 1 + Len(queue)) % Len(queue)
                /\ currentTrack' = <<queue[currentTrackIndex' + 1]>>
                /\ isPlaying' ]_vars

\* previous() at exactly 3 seconds of the first track of a queue of three
\* has moved to the last track.
C12_Witness ==
  /\ playerEvent = "prev"
  /\ eventTime = 3
  /\ Len(queue) = 3
  /\ currentTrackIndex = 2
  /\ currentTrack = <<queue[3]>>
  /\ isPlaying
  /\ currentTime = 0

\* C13 as stated: previous() at 2 seconds restarts the same track, and at 5
\* seconds it moves to the prior queue index.
C13_RestartsAtTwoMovesAtFive ==
  [][ (playerEvent' = "prev" /\ currentTrack # <<>>)
        => /\ currentTime = 2 =>
                /\ currentTime' = 0
                /\ currentTrack' = currentTrack
                /\ currentTrackIndex' = currentTrackIndex
           /\ currentTime = 5 =>
                /\ currentTrackIndex' =
                     (currentTrackIndex - 1 + Len(queue)) % Len(queue)
                /\ currentTrack' = <<queue[currentTrackIndex' + 1]>> ]_vars

\* C13, amended: the threshold works the other way round.  previous() at 2
\* seconds moves to the prior queue index and plays it, and at 5 seconds it
\* restarts the same track (time 0, track and index unchanged).
C13_MovesAtTwoRestartsAtFive ==
  [][ (playerEvent' = "prev" /\ currentTrack # <<>>)
        => /\ currentTime = 2 =>
                /\ currentTrackIndex' =
                     (currentTrackIndex - 1 + Len(queue)) % Len(queue)
                /\ currentTrack' = <<queue[currentTrackIndex' + 1]>>
                /\ isPlaying'
           /\ currentTime = 5 =>
                /\ currentTime' = 0
                /\ currentTrack' = currentTrack
                /\ currentTrackIndex' = currentTrackIndex
                /\ isPlaying' = isPlaying ]_vars

\* previous() at 5 seconds of the second track of a queue of three has
\* restarted that track.
C13_Witness ==
  /\ playerEvent = "prev"
  /\ eventTime = 5
  /\ currentTime = 0
  /\ Len(queue) = 3
  /\ currentTrackIndex = 1
  /\ currentTrack = <<queue[2]>>


----------------------------------------------------------------------------
(* Volume, Dashboard.tsx 657-658, 1002-1009 and 1878-1893.                 *)

MaxToggles == 3

\* Positions of the range input (min 0, max 1, step 0.01), in hundredths.
\* parseFloat of the input's value gives the position; a level is stored and
\* restored as it is, no arithmetic is done on it.
VolumeLevels == {0, 1, 60, 100}

\* A faulty toggleMute: muting does not remember the level.
ToggleMuteForgetful(vol, prev) ==
  IF vol > 0
  THEN [volume |-> 0, prevVolume |-> prev]
  ELSE [volume |-> IF prev > 0 THEN prev ELSE InitialVolume, prevVolume |-> prev]

\* toggleMute, lines 1002-1009: the volume and prevVolume it leaves.
ToggleMute(vol, prev) ==
  IF vol > 0
  THEN [volume |-> 0, prevVolume |-> vol]
  ELSE [volume |-> IF prev > 0 THEN prev ELSE InitialVolume, prevVolume |-> prev]

\* onChange={(e) => setVolume(parseFloat(e.target.value))}
Pl_setVolume(v) ==
  /\ currentTrack # <<>>
  /\ volume' = v
  /\ volumeOps' = [set |-> v, toggles |-> 0,
                    beforeZero |-> IF v = 0 /\ volume # 0 THEN volume
                                   ELSE volumeOps.beforeZero]
  /\ playerEvent' = "volume"
  /\ eventTime' = currentTime
  /\ UNCHANGED <<prevVolume, currentTrack, isPlaying, loopMode, queue,
                 currentTrackIndex, currentTime>>
  /\ UNCHANGED <<gatewayVars, dashVars, storageVars, shellVars>>

\* The mute button of the player bar.
Pl_toggleMute ==
  /\ currentTrack # <<>>
  /\ volumeOps.toggles < MaxToggles
  /\ volume' = ToggleMute(volume, prevVolume).volume
  /\ prevVolume' = ToggleMute(volume, prevVolume).prevVolume
  /\ volumeOps' = [volumeOps EXCEPT !.toggles = @ + 1,
                                    !.beforeZero = IF volume > 0 THEN volume ELSE @]
  /\ playerEvent' = "mute"
  /\ eventTime' = currentTime
  /\ UNCHANGED <<currentTrack, isPlaying, loopMode, queue, currentTrackIndex,
                 currentTime>>
  /\ UNCHANGED <<gatewayVars, dashVars, storageVars, shellVars>>

\* SpecVolume: the volume controls of the player bar while tracks play.
NextVolume ==
  \/ \E k \in 1..Len(tracks) : Pl_handlePlayTrack(k)
  \/ Pl_togglePlay
  \/ \E v \in VolumeLevels : Pl_setVolume(v)
  \/ Pl_toggleMute

SpecVolume == InitPlayer /\ [][NextVolume]_vars

\* C14: mute/unmute round trip.  For every level v, setVolume(v) followed by
\* toggleMute() and toggleMute() again leaves the volume equal to v.
C14_MuteRoundTrip ==
  (volumeOps.set # -1 /\ volumeOps.toggles = 2) => volume = volumeOps.set

\* The level was set to 0.6, muted and unmuted, and is 0.6 again.
C14_Witness ==
  /\ volumeOps.set = 60
  /\ volumeOps.toggles = 2
  /\ volume = 60
  /\ prevVolume = 60

-----------------------------------------------------------------------------
(* Properties of the forms.                                                *)

\* C15: tag normalisation.  The tags list an upload, apply or edit handler
\* builds from the comma-separated text of its tags field holds only trimmed,
\* non-empty strings, in the order of the text: it is the text split at the
\* commas, each piece trimmed, the empty pieces dropped.  Stated of the
\* lists that reach a service call, those of submits past their validation.
C15_TagsNormalised ==
  (/\ lastSubmit.handler \in {"library", "newApp", "edit"}
   /\ lastSubmit.outcome # "rejected") =>
    /\ \A i \in 1..Len(tags) :
         /\ tags[i] # <<>>
         /\ Head(tags[i]) # " "
         /\ tags[i][Len(tags[i])] # " "
    /\ tags = ParseTagsFiltered(lastSubmit.tagsInput)

\* The edit form given "a," : the list built is ["a", ""].
C15_Witness ==
  /\ lastSubmit.handler = "edit"
  /\ lastSubmit.outcome = "done"
  /\ lastSubmit.tagsInput = <<"a", ",">>
  /\ tags = << <<"a">>, <<>> >>

\* C16: the upload progress state machine.  In the library-upload and
\* new-track-application flows uploadState goes idle -> uploading ->
\* processing -> success on success and idle -> uploading -> idle on failure,
\* whichever step fails, and makes no other transition.  (The return from
\* success to idle that ends a successful run is allowed for.)
C16_OnlyStatedTransitions ==
  [][ uploadState' # uploadState =>
        <<uploadState, uploadState'>> \in
          { <<"idle", "uploading">>, <<"uploading", "processing">>,
            <<"processing", "success">>, <<"uploading", "idle">>,
            <<"success", "idle">> } ]_vars

\* C16 as the handlers have it: a failure of the binary upload goes uploading
\* -> idle, a failure of the metadata insert or of the application insert
\* goes processing -> idle, and a run goes back to idle by a failure or from
\* success only.
C16_TransitionsWithProcessingFailure ==
  [][ uploadState' # uploadState =>
        /\ <<uploadState, uploadState'>> \in
             { <<"idle", "uploading">>, <<"uploading", "processing">>,
               <<"processing", "success">>, <<"uploading", "idle">>,
               <<"processing", "idle">>, <<"success", "idle">> }
        /\ (uploadState' = "idle" /\ uploadState # "success") =>
             /\ lastSubmit'.outcome = "failed"
             /\ uploadState = (IF job.phase = "upload" THEN "uploading" ELSE "processing") ]_vars

\* The new-track application whose metadata insert failed: idle again, the
\* progress still at the 95 of the processing state.
C16_Witness ==
  /\ lastSubmit.handler = "newApp"
  /\ lastSubmit.outcome = "failed"
  /\ uploadState = "idle"
  /\ uploadProgress = 95
  /\ remote.tracks = <<>>

\* C17: every failure path ends in a usable idle state.  Once uploadTrackFile,
\* saveTrackMetadata, submitApplication or updateTrackMetadata has failed in a
\* handler, isUploading is false, uploadState is idle, no progress interval is
\* running and no call of the handler is pending, until the next submit; once
\* updateArtistProfile has failed, isSavingProfile is false.
C17_FailureLeavesIdle ==
  /\ lastSubmit.outcome = "failed" =>
       /\ ~isUploading
       /\ uploadState = "idle"
       /\ ~progressTimer
       /\ job = NoJob
  /\ lastCall = Call(FALSE, "threw") => ~isSavingProfile

\* A new-track application failed while its interval was still running, and
\* a profile save failed.
C17_Witness ==
  /\ lastSubmit.handler = "newApp"
  /\ lastSubmit.outcome = "failed"
  /\ uploadProgress = 90
  /\ lastCall = Call(FALSE, "threw")
  /\ ~isUploading
  /\ ~isSavingProfile
  /\ ~progressTimer

\* C18: validation precedes I/O.  A submit of the upload form or of the
\* new-track application form with no file selected or an empty title is
\* rejected: it starts no uploadTrackFile, saveTrackMetadata or
\* submitApplication call, writes nothing to the store and leaves isUploading,
\* uploadState, uploadProgress and the progress interval as they were.
C18_ValidationPrecedesIO ==
  [][ (/\ lastSubmit' # lastSubmit
       /\ lastSubmit'.handler \in {"library", "newApp"}
       /\ lastSubmit'.outcome \in {"rejected", "started"}
       /\ (~uploadFile \/ lastSubmit'.title = ""))
      => /\ lastSubmit'.outcome = "rejected"
         /\ UNCHANGED <<isUploading, uploadState, uploadProgress, progressTimer,
                        job, remote, nextId>> ]_vars

\* The application form submitted with a file and an empty title.
C18_Witness ==
  /\ lastSubmit = Submit("newApp", "rejected", "", <<>>)
  /\ uploadFile
  /\ ~isUploading
  /\ uploadState = "idle"
  /\ job = NoJob

\* The track ids of the store.
StoredTrackIds == {remote.tracks[k].id : k \in 1..Len(remote.tracks)}

\* C20: the new-track application is a strictly ordered multi-phase write.  A
\* track row is inserted only once the binary upload has succeeded (the form
\* shows processing), the application row of the flow only once the metadata
\* insert has returned the track it refers to; so every application row
\* refers to a track of the store, and a failed upload inserts no row.
C20_OrderedWrite ==
  [][ /\ Len(remote'.tracks) > Len(remote.tracks) =>
           /\ job.phase = "save"
           /\ uploadState = "processing"
      /\ (Len(remote'.applications) > Len(remote.applications) /\ job.kind = "newApp") =>
           /\ job.phase = "submit"
           /\ job.trackId \in StoredTrackIds
           /\ remote'.applications[Len(remote'.applications)].trackId = job.trackId
      /\ \A k \in 1..Len(remote'.applications) :
           remote'.applications[k].trackId \in StoredTrackIds'
      /\ (job.phase = "upload" /\ lastSubmit'.outcome = "failed") => remote' = remote
    ]_vars

\* A new-track application gone through: its track and, referring to it, its
\* application are in the store.
C20_Witness ==
  /\ lastSubmit.handler = "newApp"
  /\ lastSubmit.outcome = "done"
  /\ uploadState = "success"
  /\ Len(remote.tracks) = 1
  /\ Len(remote.applications) = 1
  /\ remote.applications[1].trackId = remote.tracks[1].id

-----------------------------------------------------------------------------
(* services/supabase.ts: uploadTrackFile.                                  *)

\* The uploadTrackFile calls of a run.
MaxUploads == 2

\* How one storage.from(bucket).upload(...) settles: no error, an error that
\* reads as "bucket not found", any other error.
UploadOutcomes == {"ok", "notFound", "other"}

\* uploadError.message.includes('not found') || statusCode === '404'
IsNotFound(outcome) == outcome = "notFound"

\* uploadTrackFile(file, userId) up to its first await: the path is made and
\* the upload to 'Syncmaster' is sent.
Sb_uploadTrackFile(uid) ==
  /\ storage.status # "calling"
  /\ storage.calls < MaxUploads
  /\ storage' = [storage EXCEPT !.status = "calling", !.userId = uid,
                                !.bucketName = "Syncmaster", !.attempts = <<>>,
                                !.calls = @ + 1]
  /\ UNCHANGED <<gatewayVars, dashVars, playerVars, shellVars>>

\* The upload to bucketName settles and uploadTrackFile runs on to its next
\* await, its return or its throw: after the first attempt the fallback to
\* 'syncmaster' is taken on a not-found error, after the second the fallback
\* to 'tracks' is taken on retry.error, and whatever error is left is thrown.
Sb_storageUploaded(outcome) ==
  /\ storage.status = "calling"
  /\ LET n == Len(storage.attempts) + 1
         tried == Append(storage.attempts,
                         [bucket |-> storage.bucketName, outcome |-> outcome])
         stored == IF outcome = "ok"
                   THEN storage.objects \cup {<<storage.bucketName, storage.userId>>}
                   ELSE storage.objects
     IN  storage' =
           IF n = 1 /\ IsNotFound(outcome)
           THEN [storage EXCEPT !.attempts = tried, !.bucketName = "syncmaster"]
           ELSE IF n = 2 /\ outcome # "ok"
           THEN [storage EXCEPT !.attempts = tried, !.bucketName = "tracks"]
           ELSE [storage EXCEPT !.attempts = tried, !.objects = stored,
                                !.status = IF outcome = "ok" THEN "returned" ELSE "threw"]
  /\ UNCHANGED <<gatewayVars, dashVars, playerVars, shellVars>>

NextStorage ==
  \/ \E uid \in Users : Sb_uploadTrackFile(uid)
  \/ \E outcome \in UploadOutcomes : Sb_storageUploaded(outcome)

\* SpecStorage: callers that upload files.
SpecStorage == InitUpload /\ [][NextStorage]_vars

\* C19: the bucket fallback of uploadTrackFile.  The first attempt goes to the
\* primary bucket 'Syncmaster'; every further attempt follows a not-found
\* failure of the attempt just before it; an attempt that fails with any other
\* error is the last one, and the call throws.
C19_FallbackOnlyOnNotFound ==
  /\ storage.attempts # <<>> => storage.attempts[1].bucket = "Syncmaster"
  /\ \A i \in 2..Len(storage.attempts) : storage.attempts[i - 1].outcome = "notFound"
  /\ \A i \in 1..Len(storage.attempts) :
       storage.attempts[i].outcome = "other" =>
         /\ i = Len(storage.attempts)
         /\ storage.status = "threw"

\* 'Syncmaster' was not found, 'syncmaster' refused the upload for another
\* reason, and the file was stored in 'tracks' all the same.
C19_Witness ==
  /\ storage.status = "returned"
  /\ storage.bucketName = "tracks"
  /\ Len(storage.attempts) = 3
  /\ storage.attempts[1].outcome = "notFound"
  /\ storage.attempts[2].outcome = "other"
  /\ storage.attempts[3].outcome = "ok"

-----------------------------------------------------------------------------
(* Properties of the playback controller, continued.                       *)

\* C30: queue/track consistency.  In every state the controller reaches by
\* play, next, previous, onEnded, loop-toggle and play/pause-toggle actions,
\* currentTrackIndex is -1 or an index of the queue whose entry has the id of
\* currentTrack, and isPlaying implies that there is a currentTrack.
C30_QueueTrackConsistency ==
  /\ \/ currentTrackIndex = -1
     \/ /\ 0 <= currentTrackIndex
        /\ currentTrackIndex < Len(queue)
        /\ currentTrack # <<>>
        /\ queue[currentTrackIndex + 1].id = currentTrack[1].id
  /\ isPlaying => currentTrack # <<>>

\* The skip-forward button took the controller to the middle of three tracks.
C30_Witness ==
  /\ playerEvent = "next"
  /\ Len(queue) = 3
  /\ currentTrackIndex = 1
  /\ currentTrack = <<queue[2]>>
  /\ isPlaying

\* C23: toggleMute remembers the prior volume.  Whenever the volume is 0 and
\* toggleMute() is called, the volume becomes the level it had immediately
\* before it last became 0, whether the mute button or the slider took it
\* to 0.
C23_UnmuteRestoresPriorVolume ==
  [][ (playerEvent' = "mute" /\ volumeOps'.toggles # volumeOps.toggles /\ volume = 0)
        => volume' = volumeOps.beforeZero ]_vars

\* The slider went from 0.6 to 0 and the mute button brought back the 0.7 that
\* prevVolume has held since the start.
C23_Witness ==
  /\ playerEvent = "mute"
  /\ volumeOps = [set |-> 0, toggles |-> 1, beforeZero |-> 60]
  /\ volume = InitialVolume

-----------------------------------------------------------------------------
(* The local fallback store with its subscribers.                          *)

\* SpecMock: firebase.ts without a database handle; callers of both users
\* subscribe, unsubscribe and write.
InitMock == InitGateway /\ backend = "mock"

NextMock ==
  \/ Tick
  \/ \E c \in Colls \ {"briefs"}, u \in Users : Fb_subscribe(c, u)
  \/ \E i \in 1..Len(subs) : Fb_unsubscribe(i)
  \/ \E u \in Users : StoredTracks < MaxSubRows /\ Fb_saveTrackMetadata("a", u, TRUE)
  \/ \E id \in TrackIds, p \in UpdatePayloads : Fb_updateTrackMetadata(id, p, TRUE)
  \/ \E id \in TrackIds, u \in Users :
       StoredApps < MaxSubRows /\ Fb_submitApplication("b1", id, u, TRUE)

SpecMock == InitMock /\ [][NextMock]_vars

\* C22: in the local fallback store every mutation (saveTrackMetadata,
\* updateTrackMetadata of an existing id, submitApplication) fires the change
\* signal: when the mutating call returns, every subscription that is still
\* attached has been invoked with its collection as the mutation left it,
\* filtered to the subscriber's userId.
C22_MutationNotifiesSubscribers ==
  [][ (lastCall' = Call(TRUE, "returned") /\ <<mockDb, lastCall, subs>>' # <<mockDb, lastCall, subs>>)
        => \A i \in 1..Len(subs) :
             subs[i].attached =>
               /\ subs'[i].got
               /\ subs'[i].last = OwnedBy(mockDb'[subs[i].coll], subs[i].userId) ]_vars

\* One subscriber saw the track of user u2 arrive by an update that changed
\* the owner, the other saw it leave.
C22_Witness ==
  /\ Len(subs) = 2
  /\ subs[1].attached /\ subs[1].coll = "tracks" /\ subs[1].userId = "u1"
  /\ subs[2].attached /\ subs[2].coll = "tracks" /\ subs[2].userId = "u2"
  /\ Len(mockDb.tracks) = 1
  /\ mockDb.tracks[1].title = "b"
  /\ subs[1].last = <<>>
  /\ subs[2].last = mockDb.tracks

-----------------------------------------------------------------------------
(* Properties of the Dashboard's lists.                                    *)

\* C25: the Dashboard's tracks and applications lists only hold records whose
\* userId is the current user.uid, also when user.uid changes while a fetch
\* of the previous user's subscription is in flight and completes after the
\* unsubscribe.  Stated of the lists once the current user's own fetches of
\* the collection have been answered.
C25_ListsHoldOwnRecords ==
  /\ (\A f \in inflight : ~(f.coll = "tracks" /\ f.uid = user)) =>
       \A k \in 1..Len(tracks) : tracks[k].userId = user
  /\ (\A f \in inflight : ~(f.coll = "applications" /\ f.uid = user)) =>
       \A k \in 1..Len(applications) : applications[k].userId = user

\* Every select has been answered, no handler is running, and the
\* applications list of user u2, which only the selects set, shows the
\* application of u1.
C25_Witness ==
  /\ user = "u2"
  /\ inflight = {}
  /\ job = NoJob
  /\ Len(applications) = 1
  /\ applications[1].userId = "u1"

\* SpecOptimistic: the two uploads of the Dashboard with the insert and the
\* handler's continuation as the two steps they are, while the tracks channel
\* notifies and re-fetches.
NextOptimistic ==
  \/ Dash_openUpload
  \/ \E b \in Pitched : Dash_handleApply(b)
  \/ Dash_stepUpload
  \/ Dash_chooseFile(TRUE)
  \/ Dash_handleLibraryUploadSubmit("a", <<>>)
  \/ Dash_handleSubmitNewTrackApplication("a", <<>>)
  \/ Dash_uploadTrackFileDone(TRUE)
  \/ Dash_saveTrackMetadataStored("a")
  \/ Dash_saveTrackMetadataReturned
  \/ Dash_submitApplicationDone(TRUE)
  \/ Dash_successTimeout
  \/ Dash_postgresChange("tracks")
  \/ \E f \in inflight, o \in FetchOutcomes : Dash_fetchDone(f, o)

SpecOptimistic == InitUpload /\ [][NextOptimistic]_vars

\* C24: the Dashboard's tracks list never holds two entries with the same
\* id, however the optimistic insert made when saveTrackMetadata resolves and
\* the re-fetch that the same insert triggers interleave.
C24_NoDuplicateTrack ==
  \A i, k \in 1..Len(tracks) : tracks[i].id = tracks[k].id => i = k

\* The re-fetch was answered first and the optimistic insert put the saved
\* track in front of the list that already held it.
C24_Witness ==
  /\ Len(remote.tracks) = 1
  /\ Len(tracks) = 2
  /\ tracks[1] = remote.tracks[1]
  /\ tracks[2] = remote.tracks[1]
  /\ uploadState = "success"

-----------------------------------------------------------------------------
(* The edit of a track's metadata.                                         *)

\* A row of tracks with the columns the edit form writes next to the ones of
\* TrackRow.
DetailedTrackRow(id, uid, title, bpm, description) ==
  [id |-> id, userId |-> uid, title |-> title, src |-> "remote",
   bpm |-> bpm, tags |-> <<>>, description |-> description]

\* SpecEdit: the dashboard of Me, whose one track was fetched from the remote
\* database; the track is edited over and over.
InitEdit ==
  /\ backend = "supabase"
  /\ \E bpm \in {NoBpm, 120}, d \in Descriptions :
       /\ remote = [EmptyDb EXCEPT !.tracks = <<DetailedTrackRow(1, Me, "a", bpm, d)>>]
       /\ tracks = remote.tracks
  /\ mockDb = EmptyDb
  /\ now = 1
  /\ nextId = 2
  /\ subs = <<>>
  /\ lastCall = NoCall
  /\ user = Me
  /\ briefs = RemoteBriefs
  /\ applications = <<>>
  /\ selectedBrief = Null
  /\ isApplicationModalOpen = FALSE
  /\ applicationStep = "select"
  /\ selectedTrackId = NoId
  /\ isUploadModalOpen = FALSE
  /\ isUploading = FALSE
  /\ uploadState = "idle"
  /\ uploadProgress = 0
  /\ job = NoJob
  /\ inflight = {}
  /\ userChanges = 0
  /\ IdleForm
  /\ IdlePlayer
  /\ IdleStorage
  /\ IdleShell

NextEdit ==
  \/ \E k \in 1..MaxDashTracks : Dash_handleEditTrack(k)
  \/ Dash_closeEdit
  \/ \E t \in Titles, ti \in {<<>>, <<"a">>}, b \in BpmTexts, d \in Descriptions :
       Dash_handleEditTrackSubmit(t, ti, b, d)
  \/ \E ok \in BOOLEAN : Dash_updateTrackMetadataDone(ok)

SpecEdit == InitEdit /\ [][NextEdit]_vars

\* C26: after a successful edit the edited track of the list has the title,
\* bpm, tags and description of the row updateTrackMetadata stored.
C26_OptimisticMatchesStored ==
  (lastSubmit.handler = "edit" /\ lastSubmit.outcome = "done") =>
    \A k \in 1..Len(tracks) : \A i \in 1..Len(remote.tracks) :
      tracks[k].id = remote.tracks[i].id =>
        \A f \in {"title", "bpm", "tags", "description"} :
          tracks[k][f] = remote.tracks[i][f]

\* An edit that cleared the description and the BPM has succeeded: the list
\* shows them cleared, the stored row still has them.
C26_Witness ==
  /\ lastSubmit.handler = "edit"
  /\ lastSubmit.outcome = "done"
  /\ lastSubmit.bpm = ""
  /\ lastSubmit.description = ""
  /\ tracks[1].description = ""
  /\ tracks[1].bpm = NoBpm
  /\ remote.tracks[1].description = "d"
  /\ remote.tracks[1].bpm = 120

-----------------------------------------------------------------------------
(* The supervisor dashboard of Auth.tsx.                                   *)

MaxLoads == 2

\* The database the supervisor browses: u1 has one track and one
\* application, u2 has two tracks and none.
SupervisorDb ==
  [tracks |-> <<TrackRow(1, "u1", "a", "remote"), TrackRow(2, "u2", "a", "remote"),
                TrackRow(3, "u2", "b", "remote")>>,
   applications |-> <<AppRow(4, "u1", "b1", 1, "remote")>>]

\* fetchArtistTracks / fetchArtistApplications answered without an error:
\* select('*').eq('user_id', artistId).
FetchArtistRows(coll, artistId) == OwnedBy(remote[coll], artistId)

\* The stats loadArtistData computes from the two lists it fetched.
ArtistStats(trackRows, appRows) ==
  [totalTracks |-> Len(trackRows), totalApps |-> Len(appRows)]

RemoveAt(seq, k) == [j \in 1..(Len(seq) - 1) |-> IF j < k THEN seq[j] ELSE seq[j + 1]]

\* An artist card of the browse view is clicked: setSelectedArtist(artist),
\* and the selectedArtist effect calls loadArtistData, which sends its
\* fetchArtistTracks.
Sup_selectArtist(a) ==
  /\ sup.selectedArtist = Null
  /\ Len(sup.loads) < MaxLoads
  /\ sup' = [sup EXCEPT !.selectedArtist = a,
                        !.loads = Append(@, [artistId |-> a, phase |-> "tracks",
                                             tracks |-> <<>>])]
  /\ UNCHANGED <<gatewayVars, dashVars, playerVars, storageVars, app, seed>>

\* "Back" of the artist view: setSelectedArtist(null); the effect does nothing.
Sup_backToBrowse ==
  /\ sup.selectedArtist # Null
  /\ sup' = [sup EXCEPT !.selectedArtist = Null]
  /\ UNCHANGED <<gatewayVars, dashVars, playerVars, storageVars, app, seed>>

\* await fetchArtistTracks(artistId) of the k-th call resumes:
\* setArtistTracks(tracks), then fetchArtistApplications is sent.
Sup_tracksFetched(k) ==
  /\ k \in 1..Len(sup.loads)
  /\ sup.loads[k].phase = "tracks"
  /\ LET rows == FetchArtistRows("tracks", sup.loads[k].artistId)
     IN sup' = [sup EXCEPT !.artistTracks = rows,
                           !.loads[k] = [@ EXCEPT !.phase = "apps", !.tracks = rows]]
  /\ UNCHANGED <<gatewayVars, dashVars, playerVars, storageVars, app, seed>>

\* await fetchArtistApplications(artistId) of the k-th call resumes:
\* setArtistApps(apps) and setArtistStats of the call's own two lists.
Sup_appsFetched(k) ==
  /\ k \in 1..Len(sup.loads)
  /\ sup.loads[k].phase = "apps"
  /\ LET rows == FetchArtistRows("applications", sup.loads[k].artistId)
     IN sup' = [sup EXCEPT !.artistApps = rows,
                           !.artistStats = ArtistStats(sup.loads[k].tracks, rows),
                           !.loads = RemoveAt(@, k)]
  /\ UNCHANGED <<gatewayVars, dashVars, playerVars, storageVars, app, seed>>

\* SpecSupervisor: a supervisor browses the artists u1 and u2.
InitSupervisor ==
  /\ backend = "supabase"
  /\ remote = SupervisorDb
  /\ mockDb = OtherStore("local")
  /\ now = 1
  /\ nextId = 5
  /\ subs = <<>>
  /\ lastCall = NoCall
  /\ IdleDash
  /\ IdlePlayer
  /\ IdleStorage
  /\ IdleShell

NextSupervisor ==
  \/ \E a \in Users : Sup_selectArtist(a)
  \/ Sup_backToBrowse
  \/ \E k \in 1..MaxLoads : Sup_tracksFetched(k)
  \/ \E k \in 1..MaxLoads : Sup_appsFetched(k)

SpecSupervisor == InitSupervisor /\ [][NextSupervisor]_vars

\* C27: once no loadArtistData call is under way, the artist view shows the
\* tracks, applications and stats of the selected artist.
C27_ShowsSelectedArtist ==
  (sup.loads = <<>> /\ sup.selectedArtist # Null) =>
    /\ sup.artistTracks = FetchArtistRows("tracks", sup.selectedArtist)
    /\ sup.artistApps = FetchArtistRows("applications", sup.selectedArtist)
    /\ sup.artistStats = ArtistStats(sup.artistTracks, sup.artistApps)

\* u2 is selected and every call has completed, the call of u1 last: the
\* view of u2 shows the track and the application of u1.
C27_Witness ==
  /\ sup.loads = <<>>
  /\ sup.selectedArtist = "u2"
  /\ Len(sup.artistTracks) = 1
  /\ sup.artistTracks[1].userId = "u1"
  /\ Len(sup.artistApps) = 1
  /\ sup.artistStats = ArtistStats(sup.artistTracks, sup.artistApps)

-----------------------------------------------------------------------------
(* App of part_001: the view, the auth listener and the seeding of briefs. *)

MaxChecks == 2

MaxSeedCalls == 2

\* supabase.ts SEED_BRIEFS: rows without an id, which the table generates.
SeedRows == <<"b1", "b2">>

\* The auth effect has [view] as its dependencies: after a render with
\* another view it unsubscribes, calls seedBriefsIfNeeded() and
\* subscribeToAuth, whose getSession() is then under way with a callback that
\* closed over the new view.
App_effect(a, prevView) ==
  IF a.view = prevView THEN a ELSE [a EXCEPT !.checks = Append(@, a.view)]

\* seedBriefsIfNeeded() is called: its count query is sent.
Seed_effect(sd, viewChanged) ==
  IF viewChanged THEN [sd EXCEPT !.calls = Append(@, "count")] ELSE sd

\* The state a of App is committed by the step ev, and the effect runs if the
\* view changed.
App_commit(a, ev) ==
  /\ a.view # app.view => (Len(a.checks) < MaxChecks /\ Len(seed.calls) < MaxSeedCalls)
  /\ app' = [App_effect(a, app.view) EXCEPT
               !.event = ev, !.before = [view |-> app.view, user |-> app.user]]
  /\ seed' = Seed_effect(seed, a.view # app.view)
  /\ UNCHANGED <<gatewayVars, dashVars, playerVars, storageVars, sup>>

\* The callback App passes to subscribeToAuth, with the view it closed over.
AuthCallback(a, closedView, currentUser) ==
  [a EXCEPT !.user = currentUser,
            !.view = IF currentUser # Null THEN "dashboard"
                     ELSE IF closedView = "dashboard" THEN "landing" ELSE @]

\* The clicks that call setView: Login or Dashboard of the landing view's
\* menu, Back to Home and onCancel of the auth view.  The dashboard view
\* renders no navigation.
App_setView(v) ==
  /\ \/ app.view = "auth" /\ v = "landing"
     \/ app.view = "landing" /\ v = (IF app.user # Null THEN "dashboard" ELSE "auth")
  /\ App_commit([app EXCEPT !.view = v, !.lastNav = <<app.view, v>>], "navigate")

\* A pricing button of the landing view: handlePurchase starts its timer,
\* whose function closes over user.
App_handlePurchase ==
  /\ app.view = "landing"
  /\ app.purchase = "none"
  /\ App_commit([app EXCEPT !.purchase = IF app.user = Null THEN "anon" ELSE "user"],
                "purchase")

\* handlePurchase's timer fires: if (!user) setView('auth'), user being the
\* one of the render that was clicked.
App_purchaseTimeout ==
  /\ app.purchase \in {"anon", "user"}
  /\ App_commit([app EXCEPT !.purchase = "done",
                            !.view = IF app.purchase = "anon" THEN "auth" ELSE @,
                            !.lastNav = IF app.purchase = "anon" /\ app.view # "auth"
                                        THEN <<app.view, "auth">> ELSE @],
                "purchaseTimer")

\* The Auth form signs u in: onAuthStateChange calls handleSession, which
\* calls the callback of the effect of the current view.
App_login(u) ==
  /\ app.view = "auth"
  /\ app.session = Null
  /\ App_commit(AuthCallback([app EXCEPT !.session = u], app.view, u), "login")

\* "Log out" of the dashboard: logoutUser() ends the session and
\* onAuthStateChange calls the callback with null.
App_logoutUser ==
  /\ app.view = "dashboard"
  /\ app.user # Null
  /\ App_commit(AuthCallback([app EXCEPT !.session = Null], app.view, Null), "logout")

\* getSession() of the k-th check settles: handleSession(session) calls the
\* callback with the session's user, catch calls it with null.  The check is
\* not cancelled by the unsubscribe of a later render.
Sb_authSessionChecked(k, ok) ==
  /\ k \in 1..Len(app.checks)
  /\ App_commit(AuthCallback([app EXCEPT !.checks = RemoveAt(@, k)], app.checks[k],
                             IF ok THEN app.session ELSE Null),
                "sessionChecked")

\* The count query of the k-th seedBriefsIfNeeded call is answered: an error
\* or a count other than 0 ends the call, a count of 0 sends the insert.
Sb_seedCounted(k, ok) ==
  /\ k \in 1..Len(seed.calls)
  /\ seed.calls[k] = "count"
  /\ seed' = IF ok /\ Len(seed.table) = 0
             THEN [seed EXCEPT !.calls[k] = "insert"]
             ELSE [seed EXCEPT !.calls = RemoveAt(@, k)]
  /\ UNCHANGED <<gatewayVars, dashVars, playerVars, storageVars, app, sup>>

\* insert(SEED_BRIEFS) of the k-th call is answered; a failure is not looked at.
Sb_seedInserted(k, ok) ==
  /\ k \in 1..Len(seed.calls)
  /\ seed.calls[k] = "insert"
  /\ seed' = [seed EXCEPT !.table = IF ok THEN @ \o SeedRows ELSE @,
                          !.calls = RemoveAt(@, k)]
  /\ UNCHANGED <<gatewayVars, dashVars, playerVars, storageVars, app, sup>>

\* SpecApp: App after its mount and the first run of the auth effect, with or
\* without a persisted session, on a briefs table that is empty or seeded.
InitApp ==
  /\ backend = "supabase"
  /\ remote = EmptyDb
  /\ mockDb = OtherStore("local")
  /\ now = 1
  /\ nextId = 1
  /\ subs = <<>>
  /\ lastCall = NoCall
  /\ IdleDash
  /\ IdlePlayer
  /\ IdleStorage
  /\ \E s \in {Null, Me} : app = [IdleApp EXCEPT !.session = s, !.checks = <<"landing">>]
  /\ \E t \in {<<>>, SeedRows} : seed = [table |-> t, calls |-> <<"count">>]
  /\ sup = IdleSup

NextApp ==
  \/ \E v \in {"landing", "auth", "dashboard"} : App_setView(v)
  \/ App_handlePurchase
  \/ App_purchaseTimeout
  \/ App_login(Me)
  \/ App_logoutUser
  \/ \E k \in 1..MaxChecks, ok \in BOOLEAN : Sb_authSessionChecked(k, ok)
  \/ \E k \in 1..MaxSeedCalls, ok \in BOOLEAN : Sb_seedCounted(k, ok)
  \/ \E k \in 1..MaxSeedCalls, ok \in BOOLEAN : Sb_seedInserted(k, ok)

SpecApp == InitApp /\ [][NextApp]_vars

\* C28: the briefs table never holds a seed brief twice, however many
\* seedBriefsIfNeeded calls ran and however their queries interleaved.
C28_SeededAtMostOnce ==
  \A i \in 1..Len(seed.table) : \A j \in 1..Len(seed.table) :
    seed.table[i] = seed.table[j] => i = j

\* Two calls counted 0 rows before either inserted, and both inserted.
C28_Witness ==
  /\ seed.table = SeedRows \o SeedRows
  /\ seed.calls = <<>>

\* C29: the view changes only in a step that is a navigation click, the
\* purchase timer, a login or a logout, or in which App's user changes.
C29_ViewFollowsNavigationOrAuth ==
  [][ app'.view # app.view =>
        \/ app'.event \in {"navigate", "purchaseTimer", "login", "logout"}
        \/ app'.user # app.user ]_vars

\* The signed-in user went back to the landing view and a session check of
\* an earlier render put the dashboard back.
C29_Witness ==
  /\ app.event = "sessionChecked"
  /\ app.lastNav = <<"auth", "landing">>
  /\ app.before = [view |-> "landing", user |-> Me]
  /\ app.view = "dashboard"
  /\ app.user = Me

-----------------------------------------------------------------------------
(* The realtime re-fetches of supabase.ts.                                 *)

\* SpecRealtime: tracks subscriptions of Me on the remote database while rows
\* are inserted for both users.
InitRealtime == InitGateway /\ backend = "supabase"

NextRealtime ==
  \/ Sb_subscribe("tracks", Me)
  \/ \E i \in 1..Len(subs), o \in {"rows", "error"} : Sb_initialFetch(i, o, FALSE)
  \/ \E u \in Users : Sb_trackInsertNotified(u)
  \/ \E i \in 1..Len(subs) : Sb_refetchRead(i)
  \/ \E i \in 1..Len(subs), o \in {"rows", "error"} :
       \E k \in 1..Len(subs[i].reads) : Sb_refetchAnswered(i, k, o)
  \/ \E i \in 1..Len(subs) : Sb_unsubscribe(i)

SpecRealtime == InitRealtime /\ [][NextRealtime]_vars

\* A subscription none of whose selects has failed and none of whose selects
\* is outstanding.
Settled(s) ==
  /\ s.attached
  /\ s.init = "done"
  /\ s.outcome = "rows"
  /\ s.refetch = 0
  /\ s.reads = <<>>
  /\ ~s.refetchFailed

\* C21: subscriptions are eventually consistent.  Once the mutations have
\* ceased and every re-fetch the change notifications triggered has
\* completed, in whatever order the responses arrived, the list last
\* delivered to the callback is what the collection holds for that owner.
C21_EventuallyConsistent ==
  \A i \in 1..Len(subs) :
    Settled(subs[i]) => subs[i].last = RemoteRows(subs[i].coll, subs[i].userId)

\* Two rows were inserted for Me, both re-fetches have been answered, and
\* the list delivered last is the one with the first row only.
C21_Witness ==
  /\ Len(subs) >= 1
  /\ Settled(subs[1])
  /\ Len(OwnedBy(remote.tracks, Me)) = 2
  /\ Len(subs[1].last) = 1

====
